---- MODULE Spec2Model ----
(***************************************************************************)
(* confluence-to-md: the conversion of Confluence storage-format markup to *)
(* Markdown (src/src/confluence_2_md/converter.py).                        *)
(*                                                                         *)
(* Strings are sequences of tokens.  A token is either one whitespace      *)
(* character (" ", "\n", "\t") or a string holding no whitespace, so the   *)
(* line and whitespace operations of the code (split, strip, rstrip, the   *)
(* newline-run regex) act on tokens exactly as they act on characters.     *)
(*                                                                         *)
(* The markup tree is a tree of nodes [tag, attrs, kids, text]: an element *)
(* has a tag, a mapping of attribute names to strings and an ordered       *)
(* sequence of children; a text node has the tag "#text" and its string.   *)
(***************************************************************************)
EXTENDS Integers, Sequences, FiniteSets, TLC

VARIABLES
    html,        \* convert(): the markup handed in (the source document)
    obsidian,    \* convert(): the output-flavor switch
    download,    \* convert(): download_images
    pc,          \* convert(): the statement that runs next
    soup,        \* convert(): the parsed tree, mutated by every pass
    md,          \* convert(): the rendered Markdown; the value returned
    phases,      \* the steps of convert() that have run, in order
    px,          \* _postprocess(): the argument of the first application
    py,          \* _postprocess(): the result of the first application
    pz,          \* _postprocess(): the result of applying it to py
    ppc,         \* position of the _postprocess driver
    url_or_id,   \* parse_confluence_url(): its argument
    url_result,  \* parse_confluence_url(): the dict returned, or the error raised
    upc,         \* position of the parse_confluence_url driver
    fpc,         \* fetch_page(): the statement that runs next
    attempt,     \* fetch_page(): the attempt number of its retry wrapper
    att_attempt, \* _fetch_attachments(): the attempt number of its retry wrapper
    requests,    \* the HTTP requests issued so far, each with its outcome
    raised,      \* fetch_page(): the exception it has raised
    cpc,         \* main(): the statement that runs next
    args,        \* main(): the parsed command line
    page_id,     \* main(): the page id, once known
    page_data,   \* main(): the page fetched
    exit_status, \* main(): the status the process has exited with
    stderr,      \* main(): the messages written to standard error
    effects,     \* main(): conversions, downloads and output writes done so far
    md_calls     \* the steps of convert() that have invoked the renderer _md, in order

vars == <<html, obsidian, download, pc, soup, md, phases, px, py, pz, ppc,
    url_or_id, url_result, upc, fpc, attempt, att_attempt, requests, raised,
    cpc, args, page_id, page_data, exit_status, stderr, effects, md_calls>>

urlVars == <<url_or_id, url_result, upc>>

fetchVars == <<fpc, attempt, att_attempt, requests, raised>>

cliVars == <<cpc, args, page_id, page_data, exit_status, stderr, effects>>

callVars == <<md_calls>>

(***************************************************************************)
(* Bounds of the model.                                                    *)
(***************************************************************************)
\* nesting depth of containers below the top-level construct of a document
MaxDepth == 1
\* length of the strings handed to _postprocess
MaxLen == 6

\* the segments of a URL path
MaxPath == 5

(***************************************************************************)
(* Strings.                                                                *)
(***************************************************************************)
WS == {" ", "\n", "\t"}

IsBlank(s) == \A i \in 1..Len(s) : s[i] \in WS

\* the concatenation of the strings ss[lo], ..., ss[hi], by halves
RECURSIVE ConcatRange(_, _, _)
ConcatRange(ss, lo, hi) ==
    IF lo > hi THEN <<>>
    ELSE IF lo = hi THEN ss[lo]
    ELSE LET mid == (lo + hi) \div 2
         IN  ConcatRange(ss, lo, mid) \o ConcatRange(ss, mid + 1, hi)

\* the concatenation of a sequence of strings
Concat(ss) == ConcatRange(ss, 1, Len(ss))

\* str.lstrip(chars)
LStrip(s, chars) ==
    LET keep == {i \in 1..Len(s) : s[i] \notin chars}
    IN  IF keep = {} THEN <<>>
        ELSE SubSeq(s, CHOOSE i \in keep : \A j \in keep : i <= j, Len(s))

\* str.rstrip(chars)
RStrip(s, chars) ==
    LET keep == {i \in 1..Len(s) : s[i] \notin chars}
    IN  IF keep = {} THEN <<>>
        ELSE SubSeq(s, 1, CHOOSE i \in keep : \A j \in keep : i >= j)

\* str.strip(chars)
StripChars(s, chars) == RStrip(LStrip(s, chars), chars)

\* str.strip()
Strip(s) == StripChars(s, WS)

\* str.count(x)
Count(s, x) == Cardinality({i \in 1..Len(s) : s[i] = x})

\* the positions lo..hi of s that hold a newline token, ascending
RECURSIVE NewlineRange(_, _, _)
NewlineRange(s, lo, hi) ==
    IF lo > hi THEN <<>>
    ELSE IF lo = hi THEN (IF s[lo] = "\n" THEN <<lo>> ELSE <<>>)
    ELSE LET mid == (lo + hi) \div 2
         IN  NewlineRange(s, lo, mid) \o NewlineRange(s, mid + 1, hi)

\* the positions of the newline tokens of s, ascending
NewlinePositions(s) == NewlineRange(s, 1, Len(s))

\* str.split("\n"): the lines of s, one more than its newline tokens
SplitLines(s) ==
    LET nl == NewlinePositions(s)
    IN  [j \in 1..(Len(nl) + 1) |->
            SubSeq(s, IF j = 1 THEN 1 ELSE nl[j - 1] + 1,
                      IF j > Len(nl) THEN Len(s) ELSE nl[j] - 1)]

\* the lines ls[lo], ..., ls[hi] with a newline between neighbours
RECURSIVE JoinRange(_, _, _)
JoinRange(ls, lo, hi) ==
    IF lo > hi THEN <<>>
    ELSE IF lo = hi THEN ls[lo]
    ELSE LET mid == (lo + hi) \div 2
         IN  JoinRange(ls, lo, mid) \o <<"\n">> \o JoinRange(ls, mid + 1, hi)

\* "\n".join(lines)
JoinLines(ls) == JoinRange(ls, 1, Len(ls))

\* s occurs in t as a contiguous run of tokens
Contains(t, s) ==
    \E i \in 0..(Len(t) - Len(s)) : SubSeq(t, i + 1, i + Len(s)) = s

(***************************************************************************)
(* Phase 3: _postprocess.                                                  *)
(***************************************************************************)
\* re.sub(r"\n{3,}", "\n\n", md): every maximal run of 3 or more newline
\* tokens becomes 2
RECURSIVE CollapseRange(_, _, _)
CollapseRange(s, lo, hi) ==
    IF lo > hi THEN <<>>
    ELSE IF lo = hi
    THEN IF lo > 2 /\ s[lo] = "\n" /\ s[lo - 1] = "\n" /\ s[lo - 2] = "\n"
         THEN <<>> ELSE <<s[lo]>>
    ELSE LET mid == (lo + hi) \div 2
         IN  CollapseRange(s, lo, mid) \o CollapseRange(s, mid + 1, hi)

CollapseNewlines(s) == CollapseRange(s, 1, Len(s))

\* "\n".join(line.rstrip() for line in md.split("\n"))
RStripLines(s) ==
    LET ls == SplitLines(s)
    IN  JoinLines([i \in 1..Len(ls) |-> RStrip(ls[i], WS)])

\* md.strip() + "\n"
TrailingNewline(s) == Strip(s) \o <<"\n">>

_postprocess(s) == TrailingNewline(RStripLines(CollapseNewlines(s)))

(***************************************************************************)
(* The markup tree.                                                        *)
(***************************************************************************)
NoAttrs == [a \in {} |-> <<>>]

El(tag, attrs, kids) ==
    [tag |-> tag, attrs |-> attrs, kids |-> kids, text |-> <<>>]

\* a text node (NavigableString)
Txt(s) == [tag |-> "#text", attrs |-> NoAttrs, kids |-> <<>>, text |-> s]

\* a CDATA section of the source markup, holding its raw characters
CData(s) == [tag |-> "#cdata", attrs |-> NoAttrs, kids |-> <<>>, text |-> s]

\* Tag.get(name, default)
Get(n, name, default) ==
    IF name \in DOMAIN n.attrs THEN n.attrs[name] ELSE default

\* tag[name] = value
SetAttr(attrs, name, value) ==
    [a \in DOMAIN attrs \cup {name} |-> IF a = name THEN value ELSE attrs[a]]

\* the descendants of a sequence of siblings, in document order
RECURSIVE Descendants(_)
Descendants(kids) ==
    IF kids = <<>> THEN <<>>
    ELSE <<Head(kids)>> \o Descendants(Head(kids).kids)
                        \o Descendants(Tail(kids))

\* Tag.find_all(tag): the descendants of n with that tag, in document order
FindAll(n, tag) == SelectSeq(Descendants(n.kids), LAMBDA d : d.tag = tag)

\* Tag.find(tag): the first such descendant, as a sequence of 0 or 1 nodes
Find(n, tag) ==
    LET all == FindAll(n, tag) IN IF all = <<>> THEN <<>> ELSE <<all[1]>>

\* Tag.get_text(): the strings below n, concatenated
RECURSIVE GetText(_)
GetText(n) ==
    IF n.tag = "#text" THEN n.text
    ELSE Concat([i \in 1..Len(n.kids) |-> GetText(n.kids[i])])

\* Tag.get_text(strip=True): each string stripped, the empty ones skipped
RECURSIVE GetTextStrip(_)
GetTextStrip(n) ==
    IF n.tag = "#text" THEN Strip(n.text)
    ELSE Concat([i \in 1..Len(n.kids) |-> GetTextStrip(n.kids[i])])

(***************************************************************************)
(* convert(), lines 141-144: CDATA stripping and parsing.                  *)
(*                                                                         *)
(* In the source markup a text node holds entity-escaped characters and a  *)
(* CDATA section holds raw ones.  re.sub removes the CDATA markers, so the *)
(* parser reads a section's characters as markup: entities are decoded and *)
(* tag-like text opens and closes elements.                                *)
(***************************************************************************)
\* the parser's entity decoding
DecodeEntity(t) ==
    CASE t = "&lt;" -> "<"
      [] t = "&gt;" -> ">"
      [] t = "&amp;" -> "&"
      [] OTHER -> t

Decode(s) == [i \in 1..Len(s) |-> DecodeEntity(s[i])]

\* the formatter's entity substitution on output (decode_contents, str)
EncodeEntity(t) ==
    CASE t = "<" -> "&lt;"
      [] t = ">" -> "&gt;"
      [] t = "&" -> "&amp;"
      [] OTHER -> t

Encode(s) == [i \in 1..Len(s) |-> EncodeEntity(s[i])]

OpenTags == {"<b>"}
CloseTags == {"</b>"}

\* the parse of raw characters: runs of text become text nodes, an opening
\* tag starts an element that ends at the next closing tag or at the end of
\* the text, a stray closing tag is dropped
RECURSIVE ParseMarkup(_)
ParseMarkup(s) ==
    IF s = <<>> THEN <<>>
    ELSE IF Head(s) \in CloseTags THEN ParseMarkup(Tail(s))
    ELSE IF Head(s) \in OpenTags THEN
        LET rest == Tail(s)
            ends == {k \in 1..Len(rest) : rest[k] \in CloseTags}
            e    == IF ends = {} THEN Len(rest) + 1
                    ELSE CHOOSE k \in ends : \A j \in ends : k <= j
        IN  <<El("b", NoAttrs, ParseMarkup(SubSeq(rest, 1, e - 1)))>>
                \o ParseMarkup(SubSeq(rest, e + 1, Len(rest)))
    ELSE
        LET tags == {k \in 1..Len(s) : s[k] \in OpenTags \cup CloseTags}
            e    == IF tags = {} THEN Len(s) + 1
                    ELSE CHOOSE k \in tags : \A j \in tags : k <= j
        IN  <<Txt(Decode(SubSeq(s, 1, e - 1)))>>
                \o ParseMarkup(SubSeq(s, e, Len(s)))

\* re.sub(r'<!\[CDATA\[(.*?)\]\]>', r'\1', html) followed by
\* BeautifulSoup(html, "lxml"), on a sequence of sibling source nodes
RECURSIVE Parse(_)
Parse(kids) ==
    IF kids = <<>> THEN <<>>
    ELSE LET n == Head(kids) IN
         (IF n.tag = "#cdata" THEN ParseMarkup(n.text)
          ELSE IF n.tag = "#text" THEN <<Txt(Decode(n.text))>>
          ELSE <<[n EXCEPT !.kids = Parse(n.kids)]>>)
         \o Parse(Tail(kids))

\* Serialising a tree and parsing the text again (decode_contents or str,
\* then BeautifulSoup(..., "html.parser")): strings are entity-encoded and
\* decoded, adjacent strings arrive as one string and an empty string as none
RECURSIVE Reparse(_)
Reparse(kids) ==
    IF kids = <<>> THEN <<>>
    ELSE LET n    == Head(kids)
             rest == Reparse(Tail(kids))
         IN  IF n.tag = "#text" THEN
                 LET t == Decode(Encode(n.text)) IN
                 IF t = <<>> THEN rest
                 ELSE IF rest # <<>> /\ rest[1].tag = "#text"
                      THEN <<Txt(t \o rest[1].text)>> \o Tail(rest)
                      ELSE <<Txt(t)>> \o rest
             ELSE <<[n EXCEPT !.kids = Reparse(n.kids)]>> \o rest


(***************************************************************************)
(* Phase 2: the renderer, _ConfluenceMarkdownConverter.                    *)
(*                                                                         *)
(* The overridden rules are those of the class; the rules it inherits from *)
(* MarkdownConverter are modelled for the elements the normalizer emits.   *)
(***************************************************************************)
\* str(el): an attribute map in output order
AttrOrder ==
    <<"ac:name", "href", "src", "alt", "data-lang", "data-highlight-color",
      "data-raw-markdown", "class", "style", "ri:filename", "ri:value",
      "ri:account-id", "ri:userkey", "ri:content-title", "ac:alt">>

SerializeAttrs(n) ==
    Concat([i \in 1..Len(AttrOrder) |->
        IF AttrOrder[i] \in DOMAIN n.attrs
        THEN <<" ", AttrOrder[i], "=", "\"">>
                 \o Encode(n.attrs[AttrOrder[i]]) \o <<"\"">>
        ELSE <<>>])

VoidTags == {"img", "br"}

\* str(el): the markup of a node and of everything below it
RECURSIVE Serialize(_)
Serialize(n) ==
    IF n.tag = "#text" THEN Encode(n.text)
    ELSE IF n.tag \in VoidTags THEN
        <<"<", n.tag>> \o SerializeAttrs(n) \o <<"/>">>
    ELSE <<"<", n.tag>> \o SerializeAttrs(n) \o <<">">>
             \o Concat([i \in 1..Len(n.kids) |-> Serialize(n.kids[i])])
             \o <<"</", n.tag, ">">>

\* The grave accent cannot be written in a string of this language: these
\* tokens stand for one of them and for the fence of three of them
Backtick == "<backtick>"
Fence == "<fence>"

\* _in_table (converter.py:46)
_in_table(parent_tags) == "td" \in parent_tags \/ "th" \in parent_tags

\* str.replace("|", "\\|")
EscapePipes(s) == [i \in 1..Len(s) |-> IF s[i] = "|" THEN "\\|" ELSE s[i]]

\* str.replace("\n", "<br>")
NewlinesToBr(s) == [i \in 1..Len(s) |-> IF s[i] = "\n" THEN "<br>" ELSE s[i]]

\* convert_pre (converter.py:49)
convert_pre(el, text, parent_tags) ==
    LET code_el == Find(el, "code")
        raw     == IF code_el # <<>> THEN GetText(code_el[1]) ELSE GetText(el)
        lang    == Get(el, "data-lang", <<>>)
        code    == StripChars(raw, {"\n"})
        escaped == EscapePipes(code)
    IN  IF Strip(raw) = <<>> THEN <<>>
        ELSE IF _in_table(parent_tags) THEN
            IF \A i \in 1..Len(escaped) : escaped[i] # "\n"
            THEN <<" ", Backtick>> \o escaped \o <<Backtick, " ">>
            ELSE <<" ", "<code>">> \o NewlinesToBr(escaped)
                     \o <<"</code>", " ">>
        ELSE <<"\n", Fence>> \o lang \o <<"\n">> \o code
                 \o <<"\n", Fence, "\n">>

\* convert_code (converter.py:67)
convert_code(el, text, parent_tags) ==
    IF text = <<>> THEN <<>>
    ELSE IF "pre" \in parent_tags THEN text
    ELSE IF _in_table(parent_tags)
         THEN <<Backtick>> \o EscapePipes(text) \o <<Backtick>>
    ELSE <<Backtick>> \o text \o <<Backtick>>

\* convert_td (converter.py:79)
convert_td(el, text, parent_tags) == <<" ">> \o Strip(text) \o <<" ", "|">>

\* convert_th (converter.py:84)
convert_th(el, text, parent_tags) == <<" ">> \o Strip(text) \o <<" ", "|">>

\* convert_details (converter.py:88)
convert_details(el, text, parent_tags) == Serialize(el)

\* convert_summary (converter.py:92)
convert_summary(el, text, parent_tags) == text

\* convert_div (converter.py:96); the inherited rule makes a block of the text
convert_div(el, text, parent_tags) ==
    IF Get(el, "data-raw-markdown", <<>>) # <<>> THEN GetText(el)
    ELSE IF Strip(text) = <<>> THEN <<>>
    ELSE <<"\n", "\n">> \o Strip(text) \o <<"\n", "\n">>

\* convert_mark (converter.py:102)
convert_mark(el, text, parent_tags, obs) ==
    LET color  == Get(el, "data-highlight-color", <<>>)
        styled == <<"<mark", " ", "style=\"background:", " ">> \o color
                      \o <<"\">">> \o text \o <<"</mark>">>
    IN  IF text = <<>> THEN <<>>
        ELSE IF obs THEN
            IF color # <<>> /\ color # <<"yellow">> THEN styled
            ELSE <<"==">> \o text \o <<"==">>
        ELSE IF color # <<>> THEN styled
        ELSE <<"<mark>">> \o text \o <<"</mark>">>

\* MarkdownConverter.process_text: outside pre, whitespace runs holding a
\* newline become one newline and runs of blanks one space; outside code,
\* asterisks and underscores are escaped
RECURSIVE NormalizeRange(_, _, _)
NormalizeRange(s, lo, hi) ==
    IF lo > hi THEN <<>>
    ELSE IF lo = hi
    THEN IF s[lo] \notin WS THEN <<s[lo]>>
         ELSE IF lo > 1 /\ s[lo - 1] \in WS THEN <<>>
         ELSE IF \E j \in lo..Len(s) :
                     /\ s[j] = "\n"
                     /\ \A k \in lo..j : s[k] \in WS
              THEN <<"\n">>
         ELSE <<" ">>
    ELSE LET mid == (lo + hi) \div 2
         IN  NormalizeRange(s, lo, mid) \o NormalizeRange(s, mid + 1, hi)

NormalizeWS(s) == NormalizeRange(s, 1, Len(s))

EscapeMd(s) ==
    [i \in 1..Len(s) |->
        IF s[i] = "*" THEN "\\*" ELSE IF s[i] = "_" THEN "\\_" ELSE s[i]]

process_text(el, parent_tags) ==
    LET t1 == IF "pre" \in parent_tags THEN el.text ELSE NormalizeWS(el.text)
    IN  IF "code" \in parent_tags \/ "pre" \in parent_tags
        THEN t1 ELSE EscapeMd(t1)

\* the lines of a block, each behind a prefix; a line without content gets
\* the bare prefix
PrefixLines(s, prefix, bare) ==
    LET ls == SplitLines(s)
    IN  JoinLines([i \in 1..Len(ls) |->
            IF ls[i] = <<>> THEN bare ELSE prefix \o ls[i]])

\* MarkdownConverter's inline conversion (strong, b): the markup around the
\* text, the text's own surrounding whitespace outside it
InlineMarkup(text, markup) ==
    LET inner == Strip(text)
        lead  == SubSeq(text, 1, Len(text) - Len(LStrip(text, WS)))
        trail == SubSeq(text, Len(RStrip(text, WS)) + 1, Len(text))
    IN  IF inner = <<>> THEN <<>>
        ELSE (IF lead = <<>> THEN <<>> ELSE <<" ">>) \o <<markup>> \o inner
                 \o <<markup>> \o (IF trail = <<>> THEN <<>> ELSE <<" ">>)

\* MarkdownConverter.convert_tr for the first row of a table: a row of th
\* cells is followed by the separator line, a row of td cells is preceded by
\* an empty header line and the separator line
TableRow(el, text) ==
    LET cells  == SelectSeq(el.kids, LAMBDA k : k.tag \in {"td", "th"})
        dashes == [i \in 1..Len(cells) |-> <<"---">>]
        blanks == [i \in 1..Len(cells) |-> <<>>]
        sep(parts) ==
            <<"|", " ">>
                \o Concat([i \in 1..Len(parts) |->
                       IF i = 1 THEN parts[i]
                       ELSE <<" ", "|", " ">> \o parts[i]])
                \o <<" ", "|", "\n">>
        row == <<"|">> \o text \o <<"\n">>
    IN  IF \A i \in 1..Len(cells) : cells[i].tag = "th"
        THEN row \o sep(dashes)
        ELSE sep(blanks) \o sep(dashes) \o row

\* the rules inherited from MarkdownConverter, for the elements that reach it;
\* a tag with no rule (every ac:* and ri:* tag, and span, which is stripped)
\* renders as the text of its children
ConvertInherited(el, text, parent_tags) ==
    CASE el.tag = "p" ->
            IF Strip(text) = <<>> THEN <<>>
            ELSE <<"\n", "\n">> \o Strip(text) \o <<"\n", "\n">>
      [] el.tag \in {"strong", "b"} -> InlineMarkup(text, "**")
      [] el.tag = "blockquote" ->
            IF Strip(text) = <<>> THEN <<"\n">>
            ELSE <<"\n">> \o PrefixLines(Strip(text), <<">", " ">>, <<">">>)
                     \o <<"\n", "\n">>
      [] el.tag = "ul" ->
            IF "li" \in parent_tags THEN <<"\n">> \o RStrip(text, WS)
            ELSE <<"\n", "\n">> \o text
      [] el.tag = "li" ->
            IF Strip(text) = <<>> THEN <<"\n">>
            ELSE LET body == PrefixLines(Strip(text), <<" ", " ">>, <<>>)
                 IN  <<"-", " ">> \o SubSeq(body, 3, Len(body)) \o <<"\n">>
      [] el.tag = "a" ->
            IF Strip(text) = <<>> THEN <<>>
            ELSE IF Get(el, "href", <<>>) = <<>> THEN text
            ELSE <<"[">> \o Strip(text) \o <<"](">> \o Get(el, "href", <<>>)
                     \o <<")">>
      [] el.tag = "img" ->
            <<"![">> \o Get(el, "alt", <<>>) \o <<"](">>
                \o Get(el, "src", <<>>) \o <<")">>
      [] el.tag = "tr" -> TableRow(el, text)
      [] el.tag = "table" ->
            <<"\n", "\n">> \o Strip(text) \o <<"\n", "\n">>
      [] OTHER -> text

\* MarkdownConverter.process_tag: the children first, then the tag's rule
RECURSIVE RenderSeq(_, _, _)
RECURSIVE RenderNode(_, _, _)
RenderSeq(kids, parent_tags, obs) ==
    Concat([i \in 1..Len(kids) |-> RenderNode(kids[i], parent_tags, obs)])

RenderNode(el, parent_tags, obs) ==
    IF el.tag = "#text" THEN process_text(el, parent_tags)
    ELSE LET text == RenderSeq(el.kids, parent_tags \cup {el.tag}, obs) IN
         CASE el.tag = "pre" -> convert_pre(el, text, parent_tags)
           [] el.tag = "code" -> convert_code(el, text, parent_tags)
           [] el.tag = "td" -> convert_td(el, text, parent_tags)
           [] el.tag = "th" -> convert_th(el, text, parent_tags)
           [] el.tag = "details" -> convert_details(el, text, parent_tags)
           [] el.tag = "summary" -> convert_summary(el, text, parent_tags)
           [] el.tag = "div" -> convert_div(el, text, parent_tags)
           [] el.tag = "mark" -> convert_mark(el, text, parent_tags, obs)
           [] OTHER -> ConvertInherited(el, text, parent_tags)

\* _md (converter.py:117): the markup is parsed again and rendered, and the
\* document rule strips the result
_md(tree, obs) == Strip(RenderSeq(Reparse(tree), {}, obs))


(***************************************************************************)
(* Phase 1: the normalizer rules.                                          *)
(***************************************************************************)
Macro == "ac:structured-macro"

\* _get_macro_name (converter.py:176); <<>> stands for None
_get_macro_name(tag) ==
    IF Get(tag, "ac:name", <<>>) # <<>> THEN Get(tag, "ac:name", <<>>)
    ELSE Get(tag, "data-macro-name", <<>>)

\* _get_param without its guard for a missing parameter: the text of None
_get_paramUnguarded(tag, name) ==
    LET params == SelectSeq(FindAll(tag, "ac:parameter"),
                      LAMBDA p : Get(p, "ac:name", <<>>) = <<name>>)
    IN  IF params # <<>> THEN GetTextStrip(params[1]) ELSE <<"None">>

\* _get_param (converter.py:181): tag.find searches every descendant of tag
_get_param(tag, name) ==
    LET params == SelectSeq(FindAll(tag, "ac:parameter"),
                      LAMBDA p : Get(p, "ac:name", <<>>) = <<name>>)
    IN  IF params # <<>> THEN GetTextStrip(params[1]) ELSE <<>>

\* body.decode_contents() if body else "": the children of the first
\* descendant with that tag, as markup
InnerHtml(tag, body_tag) ==
    LET body == Find(tag, body_tag)
    IN  IF body # <<>> THEN body[1].kids ELSE <<>>

\* body.get_text() if body else ""
BodyText(tag, body_tag) ==
    LET body == Find(tag, body_tag)
    IN  IF body # <<>> THEN GetText(body[1]) ELSE <<>>

\* the body of the loop of _preprocess_code_blocks (converter.py:200)
code_block_replacement(macro) ==
    LET lang      == _get_param(macro, "language")
        code_text == BodyText(macro, "ac:plain-text-body")
    IN  <<El("pre", SetAttr(NoAttrs, "data-lang", lang),
              <<El("code", NoAttrs, <<Txt(code_text)>>)>>)>>

\* the body of the loop of _preprocess_noformat (converter.py:220)
noformat_replacement(macro) ==
    <<El("pre", NoAttrs,
         <<El("code", NoAttrs,
              <<Txt(BodyText(macro, "ac:plain-text-body"))>>)>>)>>

\* panel_types (converter.py:302)
PanelNames == {"info", "note", "warning", "tip", "panel"}

panel_types(name) == IF name = "panel" THEN "note" ELSE name

\* str.capitalize() on the callout types
Capitalize(t) ==
    CASE t = "info" -> "Info"
      [] t = "note" -> "Note"
      [] t = "warning" -> "Warning"
      [] t = "tip" -> "Tip"
      [] OTHER -> t

\* the obsidian branch of _preprocess_info_panels (converter.py:320)
callout_replacement(callout_type, title, inner_html) ==
    LET inner_md == Strip(_md(inner_html, FALSE))
        header   == <<"[!" \o callout_type \o "]">>
                        \o (IF title # <<>> THEN <<" ">> \o title ELSE <<>>)
        body     == SplitLines(inner_md)
        lines    == <<<<">", " ">> \o header>>
                        \o [i \in 1..Len(body) |->
                              IF Strip(body[i]) # <<>>
                              THEN <<">", " ">> \o body[i] ELSE <<">">>]
    IN  <<El("div", SetAttr(NoAttrs, "data-raw-markdown", <<"true">>),
              <<Txt(<<"\n">> \o JoinLines(lines) \o <<"\n">>)>>)>>

\* the standard branch of _preprocess_info_panels (converter.py:337)
blockquote_replacement(callout_type, title, inner_html) ==
    LET header_text == <<Capitalize(callout_type)>>
                           \o (IF title # <<>> THEN <<":", " ">> \o title
                               ELSE <<>>)
    IN  <<El("blockquote", NoAttrs,
              <<El("p", NoAttrs,
                   <<El("strong", NoAttrs, <<Txt(header_text)>>)>>)>>
                  \o Reparse(inner_html))>>

\* the body of the loop of _preprocess_info_panels (converter.py:314)
panel_replacement(macro, obs) ==
    LET callout_type == panel_types(_get_macro_name(macro)[1])
        title        == _get_param(macro, "title")
        inner_html   == InnerHtml(macro, "ac:rich-text-body")
    IN  IF obs THEN callout_replacement(callout_type, title, inner_html)
        ELSE blockquote_replacement(callout_type, title, inner_html)

\* the body of the loop of _preprocess_expand_macros (converter.py:361)
expand_replacement(macro) ==
    LET param == _get_param(macro, "title")
        title == IF param # <<>> THEN param
                 ELSE <<"Click", " ", "to", " ", "expand">>
    IN  <<El("details", NoAttrs,
              <<El("summary", NoAttrs, <<Txt(title)>>)>>
                  \o Reparse(InnerHtml(macro, "ac:rich-text-body")))>>

\* the body of the inner loop of _preprocess_task_lists (converter.py:381)
task_item(task) ==
    LET status_tag == Find(task, "ac:task-status")
        checked    == status_tag # <<>>
                          /\ GetTextStrip(status_tag[1]) = <<"complete">>
        marker     == IF checked THEN <<"[x]">> ELSE <<"[", " ", "]">>
    IN  El("li", NoAttrs,
           Reparse(<<Txt(marker \o <<" ">>)>>
                       \o InnerHtml(task, "ac:task-body")))

\* the body of the outer loop of _preprocess_task_lists (converter.py:378):
\* the direct ac:task children only
task_list_replacement(task_list) ==
    LET tasks == SelectSeq(task_list.kids, LAMBDA k : k.tag = "ac:task")
    IN  <<El("ul", NoAttrs, [i \in 1..Len(tasks) |-> task_item(tasks[i])])>>

\* link.find("ac:link-body") or link.find("ac:plain-text-link-body")
LinkBody(link) ==
    IF Find(link, "ac:link-body") # <<>> THEN Find(link, "ac:link-body")
    ELSE Find(link, "ac:plain-text-link-body")

\* the body of the loop of _preprocess_user_mentions (converter.py:407)
mention_replacement(link) ==
    LET user == Find(link, "ri:user")[1]
        body == LinkBody(link)
        display_name ==
            IF body # <<>> THEN GetTextStrip(body[1])
            ELSE IF Get(user, "ri:userkey", <<>>) # <<>>
                 THEN Get(user, "ri:userkey", <<>>)
                 ELSE Get(user, "ri:account-id", <<"user">>)
    IN  <<Txt(<<"@">> \o display_name)>>

\* the body of the loop of _preprocess_page_links (converter.py:420)
page_link_replacement(link) ==
    LET page   == Find(link, "ri:page")
        entity == Find(link, "ri:content-entity")
        body   == LinkBody(link)
        title  == Get(page[1], "ri:content-title", <<>>)
        display == IF body # <<>> THEN GetTextStrip(body[1]) ELSE title
        anchor(t) == El("a", SetAttr(NoAttrs, "href", <<>>), <<Txt(t)>>)
    IN  IF page = <<>>
        THEN <<anchor(Get(entity[1], "ri:content-title", <<"Link">>))>>
        ELSE <<anchor(IF display # <<>> THEN display ELSE <<"Link">>)>>

\* str.upper() on the status titles
Upper(t) ==
    CASE t = "Done" -> "DONE"
      [] t = "done" -> "DONE"
      [] t = "T" -> "T"
      [] OTHER -> t

\* the body of the loop of _preprocess_status_macros (converter.py:448)
status_replacement(macro) ==
    LET param == _get_param(macro, "title")
        title == IF param # <<>> THEN param ELSE <<"STATUS">>
    IN  <<El("strong", NoAttrs,
              <<Txt(<<"[">> \o [i \in 1..Len(title) |-> Upper(title[i])]
                        \o <<"]">>)>>)>>

\* EMOTICON_MAP (converter.py:17), an emoji written as its code points
EMOTICON_MAP ==
    [smile |-> "U+1F642", sad |-> "U+1F641", cheeky |-> "U+1F61B",
     laugh |-> "U+1F604", wink |-> "U+1F609", warning |-> "U+26A0,U+FE0F",
     tick |-> "U+2705", cross |-> "U+274C", plus |-> "U+2795",
     minus |-> "U+2796", question |-> "U+2753", heart |-> "U+2764,U+FE0F",
     information |-> "U+2139,U+FE0F"]
        @@ ("thumbs-up" :> "U+1F44D") @@ ("thumbs-down" :> "U+1F44E")
        @@ ("light-on" :> "U+1F4A1") @@ ("light-off" :> "U+1F4A1")
        @@ ("yellow-star" :> "U+2B50") @@ ("red-star" :> "U+2B50")
        @@ ("green-star" :> "U+2B50") @@ ("blue-star" :> "U+2B50")
        @@ ("broken-heart" :> "U+1F494")

\* the body of the loop of _preprocess_emoticons (converter.py:465); an
\* emoticon name is one token or absent
emoticon_replacement(emoticon) ==
    LET attr     == Get(emoticon, "ac:name", <<>>)
        emo_name == IF attr = <<>> THEN "" ELSE attr[1]
    IN  <<Txt(<<IF emo_name \in DOMAIN EMOTICON_MAP
                THEN EMOTICON_MAP[emo_name]
                ELSE ":" \o emo_name \o ":">>)>>

\* the body of the loop of _preprocess_images (converter.py:484)
image_replacement(ac_image, download_images, image_dir, obs) ==
    LET attachment == Find(ac_image, "ri:attachment")
        url_tag    == Find(ac_image, "ri:url")
        alt        == Get(ac_image, "ac:alt", <<>>)
        filename   == Get(attachment[1], "ri:filename", <<"image">>)
        img(src, a) ==
            El("img", SetAttr(SetAttr(NoAttrs, "src", src), "alt", a), <<>>)
    IN  IF attachment # <<>> THEN
            IF obs THEN
                <<El("div", SetAttr(NoAttrs, "data-raw-markdown", <<"true">>),
                     <<Txt(<<"![[">> \o filename \o <<"]]">>)>>)>>
            ELSE <<img(IF download_images
                       THEN <<image_dir, "/">> \o filename ELSE filename,
                       IF alt # <<>> THEN alt ELSE filename)>>
        ELSE IF url_tag # <<>> THEN
            <<img(Get(url_tag[1], "ri:value", <<>>),
                  IF alt # <<>> THEN alt ELSE <<"image">>)>>
        ELSE <<img(<<>>, IF alt # <<>> THEN alt ELSE <<"image">>)>>

\* _HIGHLIGHT_CLASS_COLORS (converter.py:230)
HIGHLIGHT_CLASS_COLORS ==
    ("highlight-yellow" :> "yellow") @@ ("highlight-red" :> "#ffcccb")
        @@ ("highlight-green" :> "#90ee90") @@ ("highlight-blue" :> "#add8e6")
        @@ ("highlight-grey" :> "#d3d3d3") @@ ("highlight-teal" :> "#008080")
        @@ ("highlight-purple" :> "#dda0dd")

\* cls.startswith("highlight-"), on the class names of the model
StartsWithHighlight(cls) ==
    cls \in DOMAIN HIGHLIGHT_CLASS_COLORS \cup {"highlight-pink"}

\* step 1 of _preprocess_highlights (converter.py:254); the class attribute
\* is the sequence of its class names
RECURSIVE ClassColor(_)
ClassColor(classes) ==
    IF classes = <<>> THEN "yellow"
    ELSE IF Head(classes) \in DOMAIN HIGHLIGHT_CLASS_COLORS
         THEN HIGHLIGHT_CLASS_COLORS[Head(classes)]
    ELSE ClassColor(Tail(classes))

highlight_class_replacement(span) ==
    <<El("mark",
         SetAttr(NoAttrs, "data-highlight-color",
                 <<ClassColor(Get(span, "class", <<>>))>>),
         span.kids)>>

\* re.search(r"background-color:\s*([^;]+)", style): the tokens between the
\* first "background-color" ":" and the next ";", as a sequence of 0 or 1
\* strings; the style attribute is a sequence of CSS tokens
StyleBackground(style) ==
    LET starts == {i \in 1..(Len(style) - 2) :
                      /\ style[i] = "background-color"
                      /\ style[i + 1] = ":"
                      /\ style[i + 2] # ";"}
    IN  IF starts = {} THEN <<>>
        ELSE LET i    == CHOOSE k \in starts : \A j \in starts : k <= j
                 rest == SubSeq(style, i + 2, Len(style))
                 ends == {k \in 1..Len(rest) : rest[k] = ";"}
                 e    == IF ends = {} THEN Len(rest) + 1
                         ELSE CHOOSE k \in ends : \A j \in ends : k <= j
             IN  <<Strip(SubSeq(rest, 1, e - 1))>>

\* step 2 of _preprocess_highlights (converter.py:267)
highlight_style_replacement(span) ==
    <<El("mark",
         SetAttr(NoAttrs, "data-highlight-color",
                 StyleBackground(Get(span, "style", <<>>))[1]),
         span.kids)>>

\* step 3 of _preprocess_highlights (converter.py:281)
highlight_macro_replacement(macro) ==
    LET param == _get_param(macro, "color")
        color == IF param # <<>> THEN param ELSE <<"yellow">>
    IN  <<El("mark", SetAttr(NoAttrs, "data-highlight-color", color),
              Reparse(InnerHtml(macro, "ac:rich-text-body")))>>

\* step 4 of _preprocess_highlights (converter.py:293)
highlight_mark_default(mark) ==
    <<[mark EXCEPT !.attrs =
          SetAttr(mark.attrs, "data-highlight-color", <<"yellow">>)]>>


(***************************************************************************)
(* One pass of the normalizer: `for el in soup.find_all(...)`, an element  *)
(* that matches being replaced.                                            *)
(*                                                                         *)
(* find_all lists the matching elements of the tree in document order      *)
(* before the loop starts.  A rule that builds its replacement from the    *)
(* serialised body (decode_contents, parsed again) puts copies of the body *)
(* into the tree: the elements of the list that were inside the body are   *)
(* then no longer part of the tree, and replacing them changes nothing in  *)
(* it.  A rule that moves the children themselves (the highlight spans) or *)
(* changes an element in place (the mark default) leaves them in the tree, *)
(* where the loop reaches them.                                            *)
(***************************************************************************)
MacroNamed(n, names) ==
    /\ n.tag = Macro
    /\ _get_macro_name(n) # <<>>
    /\ _get_macro_name(n)[1] \in names

\* the condition under which a pass replaces an element
Matches(rule, n) ==
    CASE rule = "code" -> MacroNamed(n, {"code", "code-block"})
      [] rule = "panel" -> MacroNamed(n, PanelNames)
      [] rule = "expand" -> MacroNamed(n, {"expand"})
      [] rule = "task" -> n.tag = "ac:task-list"
      [] rule = "mention" -> n.tag = "ac:link" /\ Find(n, "ri:user") # <<>>
      [] rule = "link" ->
            /\ n.tag = "ac:link"
            /\ \/ Find(n, "ri:page") # <<>>
               \/ Find(n, "ri:content-entity") # <<>>
      [] rule = "status" -> MacroNamed(n, {"status"})
      [] rule = "toc" -> MacroNamed(n, {"toc"})
      [] rule = "emoticon" -> n.tag = "ac:emoticon"
      [] rule = "image" -> n.tag = "ac:image"
      [] rule = "noformat" -> MacroNamed(n, {"noformat"})
      [] rule = "hl_class" ->
            /\ n.tag = "span"
            /\ \E i \in 1..Len(Get(n, "class", <<>>)) :
                   StartsWithHighlight(Get(n, "class", <<>>)[i])
      [] rule = "hl_style" ->
            /\ n.tag = "span"
            /\ StyleBackground(Get(n, "style", <<>>)) # <<>>
      [] rule = "hl_macro" -> MacroNamed(n, {"highlight"})
      [] rule = "hl_mark" ->
            n.tag = "mark" /\ Get(n, "data-highlight-color", <<>>) = <<>>
      [] OTHER -> FALSE

\* what a pass puts in the place of a matching element
Replacement(rule, n, cfg) ==
    CASE rule = "code" -> code_block_replacement(n)
      [] rule = "panel" -> panel_replacement(n, cfg.obsidian)
      [] rule = "expand" -> expand_replacement(n)
      [] rule = "task" -> task_list_replacement(n)
      [] rule = "mention" -> mention_replacement(n)
      [] rule = "link" -> page_link_replacement(n)
      [] rule = "status" -> status_replacement(n)
      [] rule = "toc" -> <<>>
      [] rule = "emoticon" -> emoticon_replacement(n)
      [] rule = "image" ->
            image_replacement(n, cfg.download, cfg.image_dir, cfg.obsidian)
      [] rule = "noformat" -> noformat_replacement(n)
      [] rule = "hl_class" -> highlight_class_replacement(n)
      [] rule = "hl_style" -> highlight_style_replacement(n)
      [] rule = "hl_macro" -> highlight_macro_replacement(n)
      [] rule = "hl_mark" -> highlight_mark_default(n)

\* the rules whose matched element keeps its children in the tree
KeepsChildren == {"hl_class", "hl_style", "hl_mark"}

RECURSIVE ApplySeq(_, _, _)
RECURSIVE ApplyNode(_, _, _)
ApplySeq(rule, kids, cfg) ==
    Concat([i \in 1..Len(kids) |-> ApplyNode(rule, kids[i], cfg)])

ApplyNode(rule, n, cfg) ==
    IF ~Matches(rule, n)
    THEN <<[n EXCEPT !.kids = ApplySeq(rule, n.kids, cfg)]>>
    ELSE IF rule \in KeepsChildren
    THEN Replacement(rule, [n EXCEPT !.kids = ApplySeq(rule, n.kids, cfg)],
                     cfg)
    ELSE Replacement(rule, n, cfg)

_preprocess_code_blocks(tree, cfg) == ApplySeq("code", tree, cfg)

_preprocess_info_panels(tree, cfg) == ApplySeq("panel", tree, cfg)

_preprocess_expand_macros(tree, cfg) == ApplySeq("expand", tree, cfg)

_preprocess_task_lists(tree, cfg) == ApplySeq("task", tree, cfg)

_preprocess_user_mentions(tree, cfg) == ApplySeq("mention", tree, cfg)

_preprocess_page_links(tree, cfg) == ApplySeq("link", tree, cfg)

_preprocess_status_macros(tree, cfg) == ApplySeq("status", tree, cfg)

_preprocess_toc_macros(tree, cfg) == ApplySeq("toc", tree, cfg)

_preprocess_emoticons(tree, cfg) == ApplySeq("emoticon", tree, cfg)

_preprocess_images(tree, cfg) == ApplySeq("image", tree, cfg)

_preprocess_noformat(tree, cfg) == ApplySeq("noformat", tree, cfg)

_preprocess_highlights(tree, cfg) ==
    ApplySeq("hl_mark",
        ApplySeq("hl_macro",
            ApplySeq("hl_style", ApplySeq("hl_class", tree, cfg), cfg), cfg),
        cfg)


\* the normalizer phase of convert (converter.py:147-158): the passes in
\* the order convert runs them
Normalize(tree, c) ==
    _preprocess_highlights(
      _preprocess_noformat(
        _preprocess_images(
          _preprocess_emoticons(
            _preprocess_toc_macros(
              _preprocess_status_macros(
                _preprocess_page_links(
                  _preprocess_user_mentions(
                    _preprocess_task_lists(
                      _preprocess_expand_macros(
                        _preprocess_info_panels(
                          _preprocess_code_blocks(tree, c), c), c), c), c),
                  c), c), c), c), c), c), c)

(***************************************************************************)
(* The source documents of the model: storage-format markup built from the *)
(* recognized constructs, containers nested MaxDepth deep below the        *)
(* top-level construct.                                                    *)
(***************************************************************************)
Attr(name, value) == SetAttr(NoAttrs, name, value)

Param(name, value) ==
    El("ac:parameter", Attr("ac:name", <<name>>), <<Txt(value)>>)

MacroEl(name, kids) == El(Macro, Attr("ac:name", <<name>>), kids)

RichBody(kids) == El("ac:rich-text-body", NoAttrs, kids)

PlainBody(node) == El("ac:plain-text-body", NoAttrs, <<node>>)

Task(parts) == El("ac:task", NoAttrs, parts)

TaskStatus(s) == El("ac:task-status", NoAttrs, <<Txt(<<s>>)>>)

TaskBody(kids) == El("ac:task-body", NoAttrs, kids)

TaskList(tasks) == El("ac:task-list", NoAttrs, tasks)

Para(s) == El("p", NoAttrs, <<Txt(s)>>)

\* constructs without a rich body
Leaves ==
    { Txt(<<"x">>),
      Para(<<"y">>),
      MacroEl("code", <<Param("language", <<"python">>),
                        PlainBody(Txt(<<"a">>))>>),
      MacroEl("status", <<Param("title", <<"Done">>)>>),
      MacroEl("toc", <<>>),
      El("ac:emoticon", Attr("ac:name", <<"smile">>), <<>>),
      El("ac:link", NoAttrs,
         <<El("ri:user", Attr("ri:account-id", <<"abc123">>), <<>>)>>),
      El("ac:image", NoAttrs,
         <<El("ri:attachment", Attr("ri:filename", <<"diagram.png">>),
              <<>>)>>) }

\* the containers used below the top level, around one child
Wrap(k) ==
    { MacroEl("info", <<RichBody(<<k>>)>>),
      MacroEl("expand", <<Param("title", <<"T">>), RichBody(<<k>>)>>),
      MacroEl("highlight", <<Param("color", <<"red">>), RichBody(<<k>>)>>),
      TaskList(<<Task(<<TaskStatus("complete"), TaskBody(<<k>>)>>)>>) }

RECURSIVE Inner(_)
Inner(d) ==
    IF d = 0 THEN Leaves
    ELSE Leaves \cup UNION {Wrap(k) : k \in Inner(d - 1)}

\* the bodies of the top-level containers: one nested construct, or one
\* followed by a paragraph
Bodies == {<<k>> : k \in Inner(MaxDepth)} \cup {<<k, Para(<<"z">>)>> : k \in Leaves}

Titles == {<<>>, <<"My", " ", "Title">>}

WithTitle(t, kids) == IF t = <<>> THEN kids ELSE <<Param("title", t)>> \o kids

Panels ==
    {MacroEl(name, WithTitle(t, <<RichBody(b)>>)) :
        name \in PanelNames, t \in Titles, b \in Bodies}

Expands ==
    {MacroEl("expand", WithTitle(t, <<RichBody(b)>>)) :
        t \in Titles, b \in Bodies}

Highlights ==
    {MacroEl("highlight", <<RichBody(b)>>) : b \in Bodies}

Statuses == {"", "complete", "incomplete"}

TaskOf(st, b) ==
    Task((IF st = "" THEN <<>> ELSE <<TaskStatus(st)>>) \o <<TaskBody(b)>>)

TaskLists ==
    {TaskList(<<TaskOf(st, b)>>) : st \in Statuses, b \in Bodies}
        \cup {TaskList(<<TaskOf(s1, <<Txt(<<"x">>)>>),
                         TaskOf(s2, <<Txt(<<"y">>)>>)>>) :
                 s1 \in Statuses, s2 \in Statuses}

\* plain-text bodies: entity-escaped text or a CDATA section
CodeTexts ==
    { <<"a">>, <<"\n", "a", "\n", "b", "\n">>, <<" ">>,
      <<"a", "&lt;", "b">>, <<"a", "<b>", "c", "</b>">> }

CodeBodies ==
    {<<>>} \cup {<<PlainBody(Txt(t))>> : t \in CodeTexts}
        \cup {<<PlainBody(CData(t))>> : t \in CodeTexts}

CodeMacros ==
    {MacroEl(name, lang \o body) :
        name \in {"code", "code-block", "noformat"},
        lang \in {<<>>, <<Param("language", <<"python">>)>>},
        body \in CodeBodies}

\* empty and whitespace-only markup
BlankDocs ==
    {<<>>, <<Txt(<<" ">>)>>, <<Txt(<<"\n", "\t", " ">>)>>, <<Txt(<<"\n">>)>>}

\* image references: an optional alt text around an attachment reference, a
\* URL reference, both or neither; a reference may lack its attribute
Alts == {<<>>, <<"Alt">>}

Attachment(f) ==
    El("ri:attachment",
       IF f = <<>> THEN NoAttrs ELSE Attr("ri:filename", f), <<>>)

UrlRef(v) ==
    El("ri:url", IF v = <<>> THEN NoAttrs ELSE Attr("ri:value", v), <<>>)

ImageUrl == <<"https://example.com/a_b.png?x=1&y=2">>

ImageRefs ==
    { <<>>,
      <<Attachment(<<"diagram.png">>)>>,
      <<Attachment(<<>>)>>,
      <<UrlRef(ImageUrl)>>,
      <<UrlRef(<<>>)>>,
      <<Attachment(<<"diagram.png">>), UrlRef(ImageUrl)>>,
      <<UrlRef(ImageUrl), Attachment(<<"diagram.png">>)>> }

ImageEl(alt, refs) ==
    El("ac:image", IF alt = <<>> THEN NoAttrs ELSE Attr("ac:alt", alt), refs)

ImageEls == {ImageEl(alt, refs) : alt \in Alts, refs \in ImageRefs}

\* links: a user, page or content-entity reference and an optional body; an
\* attribute may be absent, or present and empty (the empty string <<>>)
Absent == <<"#absent">>

OptAttr(name, v) == IF v = Absent THEN NoAttrs ELSE Attr(name, v)

LinkBodies ==
    { <<>>,
      <<El("ac:link-body", NoAttrs, <<Txt(<<"Ann">>)>>)>>,
      <<El("ac:plain-text-link-body", NoAttrs, <<Txt(<<"Ann">>)>>)>>,
      <<El("ac:link-body", NoAttrs, <<>>)>> }

UserRefs ==
    {El("ri:user", OptAttr("ri:account-id", a) @@ OptAttr("ri:userkey", k),
        <<>>) :
        a \in {Absent, <<>>, <<"abc123">>}, k \in {Absent, <<"uk1">>}}

Mentions ==
    {El("ac:link", NoAttrs, <<u>> \o b) : u \in UserRefs, b \in LinkBodies}

PageRefs ==
    {El(tag, OptAttr("ri:content-title", t), <<>>) :
        tag \in {"ri:page", "ri:content-entity"},
        t \in {Absent, <<>>, <<"Home">>}}

PageLinkEls ==
    {El("ac:link", NoAttrs, <<r>> \o b) : r \in PageRefs, b \in LinkBodies}

\* the sources of highlighted text, around the text "hi": a span with
\* classes, a span with an inline style, a mark with or without a colour,
\* the highlight macro with or without its colour parameter
HighlightText == <<Txt(<<"hi">>)>>

HighlightsAround(kids) ==
    {El("span", Attr("class", c), kids) :
        c \in {<<"highlight-yellow">>, <<"highlight-red">>,
               <<"highlight-pink">>, <<"wide", "highlight-green">>}}
        \cup {El("span",
                 Attr("style", <<"background-color", ":", " ", "#ff0", ";">>),
                 kids),
              El("mark", NoAttrs, kids),
              El("mark", Attr("data-highlight-color", <<"green">>), kids),
              MacroEl("highlight", <<RichBody(kids)>>),
              MacroEl("highlight", <<Param("color", <<"red">>),
                                     RichBody(kids)>>)}

HighlightSources == HighlightsAround(HighlightText)

\* a highlight source nested in another one
NestedHighlightDocs ==
    {<<outer>> : outer \in UNION {HighlightsAround(<<inner>>) :
                                     inner \in HighlightSources}}

\* a highlight source on its own, in a paragraph and in the body of a panel
HighlightDocs ==
    {<<h>> : h \in HighlightSources}
        \cup {<<El("p", NoAttrs, <<h>>)>> : h \in HighlightSources}
        \cup {<<MacroEl("info", <<RichBody(<<h>>)>>)>> :
                 h \in HighlightSources}

\* code inside a table cell: inline code, a pre block and the code macro,
\* around text of one line or of several, with pipes
CellTexts ==
    { <<"a", "|", "b">>, <<"a", "\n", "|", "b">>,
      <<"\n", "a", "|", "b", "\n">>, <<"a", " ", "b">> }

CellContents ==
    {El("code", NoAttrs, <<Txt(t)>>) : t \in CellTexts}
        \cup {El("pre", NoAttrs, <<El("code", NoAttrs, <<Txt(t)>>)>>) :
                 t \in CellTexts}
        \cup {El("pre", NoAttrs, <<Txt(t)>>) : t \in CellTexts}
        \cup {MacroEl(n, <<PlainBody(Txt(t))>>) :
                 n \in {"code", "noformat"}, t \in CellTexts}

TableOf(cell, c) ==
    El("table", NoAttrs, <<El("tr", NoAttrs, <<El(cell, NoAttrs, <<c>>)>>)>>)

TableDocs ==
    {<<TableOf(cell, c)>> : cell \in {"td", "th"}, c \in CellContents}

\* recognized constructs with any subset of their optional parts absent: a
\* macro with or without its parameter and its body, an emoticon with or
\* without a name, a task with or without its status and its body
OptParam(name, v) == IF v = Absent THEN <<>> ELSE <<Param(name, v)>>

OptBodies(body_tag) == {<<>>, <<El(body_tag, NoAttrs, <<Txt(<<"x">>)>>)>>}

PartialMacros ==
    {MacroEl(n, OptParam("language", l) \o b) :
        n \in {"code", "code-block", "noformat"},
        l \in {Absent, <<"python">>}, b \in OptBodies("ac:plain-text-body")}
        \cup {MacroEl(n, OptParam("title", t) \o b) :
                 n \in PanelNames \cup {"expand", "status"},
                 t \in {Absent, <<"T">>}, b \in OptBodies("ac:rich-text-body")}
        \cup {MacroEl("highlight", OptParam("color", c) \o b) :
                 c \in {Absent, <<"red">>},
                 b \in OptBodies("ac:rich-text-body")}

PartialEls ==
    PartialMacros
        \cup {El("ac:emoticon", OptAttr("ac:name", n), <<>>) :
                 n \in {Absent, <<"smile">>, <<"unknown">>}}
        \cup {TaskList(<<Task(st \o b)>>) :
                 st \in {<<>>, <<TaskStatus("complete")>>},
                 b \in OptBodies("ac:task-body")}

Documents ==
    BlankDocs \cup HighlightDocs \cup NestedHighlightDocs \cup TableDocs \cup {<<n>> : n \in PartialEls}
        \cup {<<n>> : n \in Leaves \cup Panels \cup Expands \cup Highlights
                           \cup TaskLists \cup CodeMacros \cup ImageEls
                           \cup Mentions \cup PageLinkEls}
        \cup {<<Txt(<<" ">>), n, Txt(<<"\n">>)>> : n \in Leaves}

(***************************************************************************)
(* convert (converter.py:121), one action per statement.                   *)
(***************************************************************************)
cfg == [obsidian |-> obsidian, download |-> download, image_dir |-> "assets"]

\* the guard without its second disjunct: `not html`
IsEmptyInputNoStrip(h) == h = <<>>

\* `not html or not html.strip()` (converter.py:138)
IsEmptyInput(h) ==
    h = <<>> \/ \A i \in 1..Len(h) : h[i].tag = "#text" /\ IsBlank(h[i].text)

Idle == px = <<>> /\ py = <<>> /\ pz = <<>> /\ ppc = "idle"

\* the renderer has not been invoked
CallIdle == md_calls = <<>>

\* the None of Python
None == "None"

UrlIdle == url_or_id = <<>> /\ url_result = None /\ upc = "idle"

\* no exception
NoError == [type |-> "", status_code |-> 0, message |-> ""]

FetchIdle ==
    /\ fpc = "idle"
    /\ attempt = 0
    /\ att_attempt = 0
    /\ requests = <<>>
    /\ raised = NoError

\* the process has not exited
Running == -1

NoArgs == [output |-> FALSE, json_mode |-> FALSE, no_images |-> FALSE]

CliIdle ==
    /\ cpc = "idle"
    /\ args = NoArgs
    /\ page_id = None
    /\ page_data = <<>>
    /\ exit_status = Running
    /\ stderr = <<>>
    /\ effects = <<>>

Init ==
    /\ html \in Documents
    /\ obsidian \in BOOLEAN
    /\ download \in BOOLEAN
    /\ pc = "start"
    /\ soup = <<>>
    /\ md = <<>>
    /\ phases = <<>>
    /\ Idle
    /\ UrlIdle
    /\ FetchIdle
    /\ CliIdle
    /\ CallIdle

Step(from, to, name) ==
    /\ pc = from
    /\ pc' = to
    /\ phases' = Append(phases, name)
    /\ UNCHANGED <<html, obsidian, download, px, py, pz, ppc, urlVars, fetchVars, cliVars>>

\* converter.py:138-139
ReturnEmpty ==
    /\ pc = "start"
    /\ IsEmptyInput(html)
    /\ pc' = "done"
    /\ md' = <<>>
    /\ UNCHANGED <<html, obsidian, download, soup, phases, px, py, pz, ppc, urlVars, fetchVars, cliVars, callVars>>

\* converter.py:142-144
ParseInput ==
    /\ ~IsEmptyInput(html)
    /\ Step("start", "code_blocks", "parse")
    /\ soup' = Parse(html)
    /\ UNCHANGED <<md, md_calls>>

\* the invocations of _md made by a pass over the tree: one by the callout
\* branch of _preprocess_info_panels for every panel macro that find_all
\* has collected (converter.py:308, 320-325), none by any other pass
RendererCalls(name, tree) ==
    IF name = "info_panels" /\ obsidian
    THEN LET panels == SelectSeq(Descendants(tree),
                           LAMBDA n : Matches("panel", n))
         IN  [i \in 1..Len(panels) |-> name]
    ELSE <<>>

Pass(from, to, name, result) ==
    /\ Step(from, to, name)
    /\ soup' = result
    /\ md_calls' = md_calls \o RendererCalls(name, soup)
    /\ UNCHANGED md

\* converter.py:147-158
CodeBlocks ==
    Pass("code_blocks", "info_panels", "code_blocks",
         _preprocess_code_blocks(soup, cfg))

InfoPanels ==
    Pass("info_panels", "expand_macros", "info_panels",
         _preprocess_info_panels(soup, cfg))

ExpandMacros ==
    Pass("expand_macros", "task_lists", "expand_macros",
         _preprocess_expand_macros(soup, cfg))

TaskLists_ ==
    Pass("task_lists", "user_mentions", "task_lists",
         _preprocess_task_lists(soup, cfg))

UserMentions ==
    Pass("user_mentions", "page_links", "user_mentions",
         _preprocess_user_mentions(soup, cfg))

PageLinks ==
    Pass("page_links", "status_macros", "page_links",
         _preprocess_page_links(soup, cfg))

StatusMacros ==
    Pass("status_macros", "toc_macros", "status_macros",
         _preprocess_status_macros(soup, cfg))

TocMacros ==
    Pass("toc_macros", "emoticons", "toc_macros",
         _preprocess_toc_macros(soup, cfg))

Emoticons ==
    Pass("emoticons", "images", "emoticons", _preprocess_emoticons(soup, cfg))

Images ==
    Pass("images", "noformat", "images", _preprocess_images(soup, cfg))

Noformat ==
    Pass("noformat", "highlights", "noformat", _preprocess_noformat(soup, cfg))

HighlightsPass ==
    Pass("highlights", "render", "highlights",
         _preprocess_highlights(soup, cfg))

\* converter.py:161-163
Render ==
    /\ Step("render", "postprocess", "render")
    /\ md' = _md(soup, obsidian)
    /\ md_calls' = Append(md_calls, "render")
    /\ UNCHANGED soup

\* converter.py:166-168
Postprocess ==
    /\ Step("postprocess", "done", "postprocess")
    /\ md' = _postprocess(md)
    /\ UNCHANGED <<soup, md_calls>>

Next ==
    \/ ReturnEmpty
    \/ ParseInput
    \/ CodeBlocks
    \/ InfoPanels
    \/ ExpandMacros
    \/ TaskLists_
    \/ UserMentions
    \/ PageLinks
    \/ StatusMacros
    \/ TocMacros
    \/ Emoticons
    \/ Images
    \/ Noformat
    \/ HighlightsPass
    \/ Render
    \/ Postprocess

Spec == Init /\ [][Next]_vars

(***************************************************************************)
(* _postprocess applied to a string, and to its own result.                *)
(***************************************************************************)
PostAlphabet == {"a", " ", "\n"}

RECURSIVE Strings(_)
Strings(n) ==
    IF n = 0 THEN {<<>>}
    ELSE LET shorter == Strings(n - 1)
         IN  shorter \cup {Append(s, c) :
                              s \in {t \in shorter : Len(t) = n - 1},
                              c \in PostAlphabet}

PostInit ==
    /\ px \in Strings(MaxLen)
    /\ py = <<>>
    /\ pz = <<>>
    /\ ppc = "once"
    /\ html = <<>>
    /\ obsidian = FALSE
    /\ download = FALSE
    /\ pc = "idle"
    /\ soup = <<>>
    /\ md = <<>>
    /\ phases = <<>>
    /\ UrlIdle
    /\ FetchIdle
    /\ CliIdle
    /\ CallIdle

PostOnce ==
    /\ ppc = "once"
    /\ py' = _postprocess(px)
    /\ ppc' = "twice"
    /\ UNCHANGED <<html, obsidian, download, pc, soup, md, phases, px, pz, urlVars, fetchVars, cliVars, callVars>>

PostTwice ==
    /\ ppc = "twice"
    /\ pz' = _postprocess(py)
    /\ ppc' = "done"
    /\ UNCHANGED <<html, obsidian, download, pc, soup, md, phases, px, py, urlVars, fetchVars, cliVars, callVars>>

PostNext == PostOnce \/ PostTwice

PostSpec == PostInit /\ [][PostNext]_vars

(***************************************************************************)
(* parse_confluence_url (url_parser.py).  A URL is a sequence of tokens:   *)
(* the delimiters ":", "//", "/", "?", whitespace, and names without       *)
(* delimiters (scheme, host, port, path segment).                          *)
(***************************************************************************)

\* the longest prefix of a name that \d+ matches (empty: no match)
DigitPrefix(name) ==
    CASE name \in {"123", "7", "8090"} -> name
      [] name = "12a" -> "12"
      [] OTHER -> ""

\* the longest prefix of a name that [A-Za-z0-9_-]+ matches
WordPrefix(name) ==
    CASE name = "Ab-_9.z" -> "Ab-_9"
      [] name = ".z" -> ""
      [] OTHER -> name

Delimiters == {":", "//", "/", "?"}

\* the first character of the name is a letter and every character is a
\* letter, a digit or one of + - . (urlsplit's test for a scheme)
SchemeLike(name) == name \in {"https", "http", "h.net", "localhost"}

\* the positions of s holding one of the tokens, and the first of them
FirstOf(s, tokens) ==
    LET at == {i \in 1..Len(s) : s[i] \in tokens}
    IN  IF at = {} THEN Len(s) + 1
        ELSE CHOOSE i \in at : \A j \in at : i <= j

\* urllib.parse.urlparse: the scheme before the first ":", the netloc
\* between "//" and the next "/" or "?", the path up to the "?"
urlparse(url) ==
    LET colon  == FirstOf(url, {":"})
        scheme == IF colon = 2 /\ colon <= Len(url) /\ SchemeLike(url[1])
                  THEN url[1] ELSE ""
        rest   == IF scheme = "" THEN url ELSE SubSeq(url, 3, Len(url))
        hasloc == rest # <<>> /\ rest[1] = "//"
        after  == IF hasloc THEN SubSeq(rest, 2, Len(rest)) ELSE rest
        stop   == FirstOf(after, {"/", "?"})
        netloc == IF hasloc THEN SubSeq(after, 1, stop - 1) ELSE <<>>
        tail   == IF hasloc THEN SubSeq(after, stop, Len(after)) ELSE after
    IN  [scheme |-> scheme, netloc |-> netloc,
         path |-> SubSeq(tail, 1, FirstOf(tail, {"?"}) - 1)]

\* url_parser.py:31-34
Parsed(url) ==
    IF urlparse(url).scheme # "" THEN urlparse(url)
    ELSE urlparse(<<"https", ":", "//">> \o url)

\* url_parser.py:36
base_url(parsed) ==
    <<parsed.scheme, ":", "//">> \o parsed.netloc \o <<"/", "wiki">>

\* one element of a pattern against one token of the path
Fits(token, p) ==
    CASE p = "([^/]+)" -> token \notin Delimiters
      [] p = "(\\d+)" -> DigitPrefix(token) # ""
      [] p = "([A-Za-z0-9_-]+)" -> WordPrefix(token) # ""
      [] OTHER -> token = p

MatchAt(path, i, pattern) ==
    /\ i + Len(pattern) - 1 <= Len(path)
    /\ \A j \in 1..Len(pattern) : Fits(path[i + j - 1], pattern[j])

\* re.search: the leftmost position where the pattern matches, 0 for None
Search(path, pattern) ==
    LET at == {i \in 1..Len(path) : MatchAt(path, i, pattern)}
    IN  IF at = {} THEN 0 ELSE CHOOSE i \in at : \A j \in at : i <= j

\* url_parser.py:40, 50, 60, 70
StandardPattern ==
    <<"/", "wiki", "/", "spaces", "/", "([^/]+)", "/", "pages", "/", "(\\d+)">>

DisplayPattern == <<"/", "wiki", "/", "display", "/", "([^/]+)", "/">>

ShortPattern == <<"/", "wiki", "/", "x", "/", "([A-Za-z0-9_-]+)">>

FallbackPattern == <<"/", "pages", "/", "(\\d+)">>

\* re.fullmatch(r"\d+", s)
AllDigits(s) == Len(s) = 1 /\ DigitPrefix(s[1]) = s[1] /\ s[1] # ""

\* the ValueError raised at url_parser.py:79
ValueError == [error |-> "ValueError"]

UrlResult(id, link, base, key) ==
    [page_id |-> id, short_link |-> link, base_url |-> base,
     space_key |-> key]

\* the inputs: a page id, nothing, and URLs with or without scheme, port,
\* query and surrounding whitespace, over every path of the bounded length
Segments == {"wiki", "spaces", "display", "x", "pages", "12a", ""}

RECURSIVE Paths(_)
Paths(n) ==
    IF n = 0 THEN {<<>>}
    ELSE LET shorter == Paths(n - 1)
         IN  shorter \cup
                 {p \o <<"/">> \o (IF g = "" THEN <<>> ELSE <<g>>) :
                      p \in {t \in shorter : Count(t, "/") = n - 1},
                      g \in Segments}

Origins ==
    { <<"https", ":", "//", "h.net">>, <<"h.net">>,
      <<"h.net", ":", "8090">>, <<"http", ":", "//", "h.net", ":", "8090">> }

SamplePaths ==
    { <<"/", "wiki", "/", "x", "/", "Ab-_9.z">>,
      <<"/", "wiki", "/", "x", "/", ".z">>,
      <<"/", "pages", "/", "123", "/", "Title">>,
      <<"/", "x">> }

Urls ==
    {o \o p : o \in Origins, p \in Paths(MaxPath)}
        \cup {lead \o o \o p \o q \o trail :
                 lead \in {<<>>, <<" ">>}, o \in Origins \cup {<<>>},
                 p \in SamplePaths,
                 q \in {<<>>, <<"?", "/", "pages", "/", "7">>},
                 trail \in {<<>>, <<"\n">>}}

UrlInputs ==
    Urls \cup {<<>>, <<" ">>, <<"123">>, <<" ", "123", "\n">>, <<"12a">>}

UrlInit ==
    /\ url_or_id \in UrlInputs
    /\ url_result = None
    /\ upc = "call"
    /\ html = <<>>
    /\ obsidian = FALSE
    /\ download = FALSE
    /\ pc = "idle"
    /\ soup = <<>>
    /\ md = <<>>
    /\ phases = <<>>
    /\ Idle
    /\ FetchIdle
    /\ CliIdle
    /\ CallIdle

\* a return or raise statement of parse_confluence_url
UrlReturn(value) ==
    /\ upc = "call"
    /\ url_result' = value
    /\ upc' = "done"
    /\ UNCHANGED <<html, obsidian, download, pc, soup, md, phases, px, py, pz, ppc, url_or_id, fetchVars, cliVars, callVars>>

\* url_parser.py:23-29
ReturnPageId ==
    LET s == Strip(url_or_id)
    IN  /\ AllDigits(s)
        /\ UrlReturn(UrlResult(s[1], None, None, None))

\* url_parser.py:40-47
ReturnStandard ==
    LET s    == Strip(url_or_id)
        path == Parsed(s).path
        m    == Search(path, StandardPattern)
    IN  /\ ~AllDigits(s)
        /\ m # 0
        /\ UrlReturn(UrlResult(DigitPrefix(path[m + 9]), None,
                               base_url(Parsed(s)), path[m + 5]))

\* url_parser.py:50-57
ReturnDisplay ==
    LET s    == Strip(url_or_id)
        path == Parsed(s).path
        m    == Search(path, DisplayPattern)
    IN  /\ ~AllDigits(s)
        /\ Search(path, StandardPattern) = 0
        /\ m # 0
        /\ UrlReturn(UrlResult(None, None, base_url(Parsed(s)), path[m + 5]))

\* url_parser.py:60-67
ReturnShort ==
    LET s    == Strip(url_or_id)
        path == Parsed(s).path
        m    == Search(path, ShortPattern)
    IN  /\ ~AllDigits(s)
        /\ Search(path, StandardPattern) = 0
        /\ Search(path, DisplayPattern) = 0
        /\ m # 0
        /\ UrlReturn(UrlResult(None, WordPrefix(path[m + 5]),
                               base_url(Parsed(s)), None))

\* url_parser.py:70-77
ReturnFallback ==
    LET s    == Strip(url_or_id)
        path == Parsed(s).path
        m    == Search(path, FallbackPattern)
    IN  /\ ~AllDigits(s)
        /\ Search(path, StandardPattern) = 0
        /\ Search(path, DisplayPattern) = 0
        /\ Search(path, ShortPattern) = 0
        /\ m # 0
        /\ UrlReturn(UrlResult(DigitPrefix(path[m + 3]), None,
                               base_url(Parsed(s)), None))

\* url_parser.py:79
RaiseValueError ==
    LET s    == Strip(url_or_id)
        path == Parsed(s).path
    IN  /\ ~AllDigits(s)
        /\ Search(path, StandardPattern) = 0
        /\ Search(path, DisplayPattern) = 0
        /\ Search(path, ShortPattern) = 0
        /\ Search(path, FallbackPattern) = 0
        /\ UrlReturn(ValueError)

UrlNext ==
    \/ ReturnPageId
    \/ ReturnStandard
    \/ ReturnDisplay
    \/ ReturnShort
    \/ ReturnFallback
    \/ RaiseValueError

UrlSpec == UrlInit /\ [][UrlNext]_vars

(***************************************************************************)
(* ConfluenceFetcher.fetch_page (fetcher.py), one call: the page request,  *)
(* the nested attachment listing, and the two retry wrappers.  The server  *)
(* chooses the outcome of every request.                                   *)
(***************************************************************************)

\* stop_after_attempt(3) of fetch_page (fetcher.py:55) and of
\* _fetch_attachments (fetcher.py:120)
MaxAttempts == 3

MaxAttachmentAttempts == 3

\* the outcome of a request: a status code, no response at all (the client
\* raises), or status 200 with a body that resp.json() rejects
StatusCodes == {200, 302, 403, 404, 429, 500, 503}

Response(status_code) == [status_code |-> status_code, error |-> ""]

Responses == {Response(c) : c \in StatusCodes}

Failures ==
    { [status_code |-> 0, error |-> "TransportError"],
      [status_code |-> 200, error |-> "JSONDecodeError"] }

\* the exception of a failed request
ClientError(outcome) ==
    [type |-> outcome.error, status_code |-> 0, message |-> ""]

\* ConfluenceError (fetcher.py:14)
ConfluenceError(message, status_code) ==
    [type |-> "ConfluenceError", status_code |-> status_code,
     message |-> message]

\* _should_retry with its test dropped: every exception is retried
_should_retryAlways(exc) == TRUE

\* _should_retry (fetcher.py:20)
_should_retry(exc) ==
    ~(/\ exc.type = "ConfluenceError"
      /\ exc.status_code # 0
      /\ 400 <= exc.status_code /\ exc.status_code < 500
      /\ exc.status_code # 429)

Request(endpoint, outcome) == [endpoint |-> endpoint, outcome |-> outcome]

FetchInit ==
    /\ fpc = "page"
    /\ attempt = 1
    /\ att_attempt = 0
    /\ requests = <<>>
    /\ raised = NoError
    /\ html = <<>>
    /\ obsidian = FALSE
    /\ download = FALSE
    /\ pc = "idle"
    /\ soup = <<>>
    /\ md = <<>>
    /\ phases = <<>>
    /\ Idle
    /\ UrlIdle
    /\ CliIdle
    /\ CallIdle

FetchUnchanged ==
    UNCHANGED <<html, obsidian, download, pc, soup, md, phases, px, py, pz, ppc, urlVars, cliVars, callVars>>

\* an exception leaves the body of fetch_page: the retry wrapper
\* (fetcher.py:54-59) calls the body again, or re-raises the exception when
\* it is not to be retried or the last attempt has been made
Fails(exc) ==
    IF _should_retry(exc) /\ attempt < MaxAttempts
    THEN /\ attempt' = attempt + 1
         /\ fpc' = "page"
         /\ UNCHANGED raised
    ELSE /\ fpc' = "raised"
         /\ raised' = exc
         /\ UNCHANGED attempt

\* fetcher.py:66, 76-83: the page request is answered with 200 and a body
PageFetched ==
    /\ fpc = "page"
    /\ requests' = Append(requests, Request("page", Response(200)))
    /\ fpc' = "attachments"
    /\ att_attempt' = 1
    /\ UNCHANGED <<attempt, raised>>
    /\ FetchUnchanged

\* fetcher.py:66-76: the page request fails, with a status other than 200
\* (lines 68-74), in the client (line 66) or in resp.json() (line 76)
PageFails ==
    /\ fpc = "page"
    /\ \E o \in (Responses \ {Response(200)}) \cup Failures :
           /\ requests' = Append(requests, Request("page", o))
           /\ Fails(IF o \in Failures THEN ClientError(o)
                    ELSE IF o.status_code = 404
                    THEN ConfluenceError("Page not found", 404)
                    ELSE ConfluenceError("Failed to fetch page",
                                         o.status_code))
    /\ UNCHANGED att_attempt
    /\ FetchUnchanged

\* fetcher.py:127-151, 85-91: the attachment request is answered; a status
\* other than 200 gives the empty list; fetch_page returns
AttachmentsListed ==
    /\ fpc = "attachments"
    /\ \E o \in Responses :
           requests' = Append(requests, Request("attachments", o))
    /\ fpc' = "returned"
    /\ UNCHANGED <<attempt, att_attempt, raised>>
    /\ FetchUnchanged

\* fetcher.py:119-123, 127, 131: the attachment request fails in the client
\* or in resp.json(); its retry wrapper repeats it, and after the last
\* attempt re-raises into fetch_page
AttachmentsFail ==
    /\ fpc = "attachments"
    /\ \E o \in Failures :
           /\ requests' = Append(requests, Request("attachments", o))
           /\ IF att_attempt < MaxAttachmentAttempts
              THEN /\ att_attempt' = att_attempt + 1
                   /\ UNCHANGED <<fpc, attempt, raised>>
              ELSE /\ Fails(ClientError(o))
                   /\ UNCHANGED att_attempt
    /\ FetchUnchanged

FetchNext ==
    \/ PageFetched
    \/ PageFails
    \/ AttachmentsListed
    \/ AttachmentsFail

FetchSpec == FetchInit /\ [][FetchNext]_vars

(***************************************************************************)
(* main (cli.py), one run of the command-line driver.  The collaborators   *)
(* (settings, URL parser, fetcher) choose their outcomes.                  *)
(***************************************************************************)

\* the collaborator error kinds and the message main prints for each
\* (cli.py:96, 103, 114, 130)
ErrorKinds == {"configuration", "url", "short_link", "fetch"}

Message(kind) ==
    CASE kind = "configuration" -> "Configuration error"
      [] kind = "url" -> "URL error"
      [] kind = "short_link" -> "Failed to resolve short link"
      [] kind = "fetch" -> "Fetch error"

\* the argument of sys.exit in the handler of each kind
\* (cli.py:97, 104, 115, 131)
ExitStatus(kind) ==
    CASE kind = "configuration" -> 1
      [] kind = "url" -> 1
      [] kind = "short_link" -> 1
      [] kind = "fetch" -> 1

\* what parse_confluence_url hands to main: a page id, a short link, or
\* neither (a display URL)
ParsedUrls == {"page_id", "short_link", "neither"}

\* the file names of the attachments of a page
AttachmentLists == {<<>>, <<"a.png">>, <<"notes.txt">>, <<"a.png", "b.JPG">>}

image_exts == {".png", ".jpg", ".jpeg", ".gif", ".svg", ".webp", ".bmp"}

\* Path(a.filename).suffix.lower()
Suffix(filename) ==
    CASE filename = "a.png" -> ".png"
      [] filename = "b.JPG" -> ".jpg"
      [] filename = "notes.txt" -> ".txt"

CliInit ==
    /\ cpc = "settings"
    /\ args \in [output : BOOLEAN, json_mode : BOOLEAN, no_images : BOOLEAN]
    /\ page_id = None
    /\ page_data = <<>>
    /\ exit_status = Running
    /\ stderr = <<>>
    /\ effects = <<>>
    /\ html = <<>>
    /\ obsidian = FALSE
    /\ download = FALSE
    /\ pc = "idle"
    /\ soup = <<>>
    /\ md = <<>>
    /\ phases = <<>>
    /\ Idle
    /\ UrlIdle
    /\ FetchIdle
    /\ CallIdle

CliUnchanged ==
    UNCHANGED <<html, obsidian, download, pc, soup, md, phases, px, py, pz, ppc, urlVars, fetchVars, args, callVars>>

\* print(message, file=sys.stderr); sys.exit(status)
Exit(message, status) ==
    /\ stderr' = Append(stderr, message)
    /\ exit_status' = status
    /\ cpc' = "exited"
    /\ UNCHANGED <<page_id, page_data, effects>>

\* an except block of main for a collaborator error
Handle(kind) == Exit(Message(kind), ExitStatus(kind))

\* cli.py:88-97
LoadSettings ==
    /\ cpc = "settings"
    /\ \E valid \in BOOLEAN :
           IF valid
           THEN /\ cpc' = "parse"
                /\ UNCHANGED <<page_id, page_data, exit_status, stderr, effects>>
           ELSE Handle("configuration")
    /\ CliUnchanged

\* cli.py:100-119: the URL is parsed and the page id resolved
ResolvePageId ==
    /\ cpc = "parse"
    /\ \E ok \in BOOLEAN, parsed \in ParsedUrls, resolved \in BOOLEAN :
           IF ~ok THEN Handle("url")
           ELSE IF parsed = "short_link" /\ ~resolved
           THEN Handle("short_link")
           ELSE IF parsed = "neither"
           THEN Exit("Could not determine page ID from the given URL.", 1)
           ELSE /\ page_id' = "123"
                /\ cpc' = "fetch"
                /\ UNCHANGED <<page_data, exit_status, stderr, effects>>
    /\ CliUnchanged

\* cli.py:122-131
FetchPage ==
    /\ cpc = "fetch"
    /\ \E ok \in BOOLEAN, attachments \in AttachmentLists :
           IF ok
           THEN /\ page_data' = attachments
                /\ cpc' = "convert"
                /\ UNCHANGED <<page_id, exit_status, stderr, effects>>
           ELSE Handle("fetch")
    /\ CliUnchanged

\* download_images of main (cli.py:134)
cli_download_images == ~args.no_images /\ ~args.json_mode

\* out_path is set (cli.py:137-139)
has_out_path == args.output /\ ~args.json_mode

\* cli.py:145
ConvertPage ==
    /\ cpc = "convert"
    /\ effects' = Append(effects, "convert")
    /\ cpc' = "download"
    /\ UNCHANGED <<page_id, page_data, exit_status, stderr>>
    /\ CliUnchanged

\* cli.py:148-168: every image attachment is downloaded; a failed download
\* is a warning
DownloadImages ==
    /\ cpc = "download"
    /\ LET image_attachments ==
               SelectSeq(page_data, LAMBDA a : Suffix(a) \in image_exts)
       IN  IF cli_download_images /\ image_attachments # <<>>
           THEN \E failed \in SUBSET (1..Len(image_attachments)) :
                    /\ effects' = effects \o
                           [i \in 1..Len(image_attachments) |-> "download"]
                    /\ stderr' = stderr \o
                           [i \in 1..Cardinality(failed) |->
                               "Warning: Failed to download"]
           ELSE UNCHANGED <<effects, stderr>>
    /\ cpc' = "output"
    /\ UNCHANGED <<page_id, page_data, exit_status>>
    /\ CliUnchanged

\* cli.py:171-184: main returns and the process exits with status 0
WriteOutput ==
    /\ cpc = "output"
    /\ IF args.json_mode
       THEN effects' = Append(effects, "print json") /\ UNCHANGED stderr
       ELSE IF has_out_path
       THEN /\ effects' = Append(effects, "write")
            /\ stderr' = Append(stderr, "Written to")
       ELSE effects' = Append(effects, "print") /\ UNCHANGED stderr
    /\ cpc' = "exited"
    /\ exit_status' = 0
    /\ UNCHANGED <<page_id, page_data>>
    /\ CliUnchanged

CliNext ==
    \/ LoadSettings
    \/ ResolvePageId
    \/ FetchPage
    \/ ConvertPage
    \/ DownloadImages
    \/ WriteOutput

CliSpec == CliInit /\ [][CliNext]_vars


(***************************************************************************)
(* The claims.                                                             *)
(***************************************************************************)
\* the element names of the storage format (the ac: and ri: namespaces)
ConfluenceTags ==
    { Macro, "ac:parameter", "ac:rich-text-body", "ac:plain-text-body",
      "ac:task-list", "ac:task", "ac:task-status", "ac:task-body", "ac:link",
      "ac:link-body", "ac:plain-text-link-body", "ri:user", "ri:page",
      "ri:content-entity", "ac:emoticon", "ac:image", "ri:attachment",
      "ri:url" }

\* every node of a tree, in document order
Nodes(tree) == Descendants(tree)

HasConfluenceNode(tree) ==
    \E i \in 1..Len(Nodes(tree)) : Nodes(tree)[i].tag \in ConfluenceTags

\* the normalizer phase has completed
Normalized == pc \in {"render", "postprocess"}

\* C1: once every _preprocess_* pass of convert() has run, the tree holds no
\* Confluence-namespaced element (no ac:* and no ri:* node), whatever the
\* nesting of the recognized constructs and under either flavor.
C1_NoConfluenceElement == Normalized => ~HasConfluenceNode(soup)


\* the document is one construct, and it is a structured macro of these names
TopMacro(names) == Len(html) = 1 /\ MacroNamed(html[1], names)

TopTaskList == Len(html) = 1 /\ html[1].tag = "ac:task-list"

\* the canonical form of a body: what the normalizer makes of the body's
\* constructs when they stand on their own, as markup
Canonical(body) == Reparse(Normalize(body, cfg))

TaskMarkers == {<<"[x]", " ">>, <<"[", " ", "]", " ">>}

\* C2: the content a panel, an expand macro, a highlight macro or a task body
\* hands to its replacement is the canonical form of the constructs nested
\* in it, also for a container of the same kind and for a panel under the
\* alternate flavor.
C2_NestedCanonical ==
    (Normalized /\ Len(html) = 1) =>
        LET top  == Parse(html)[1]
            out  == Reparse(soup)
            rich == InnerHtml(top, "ac:rich-text-body")
        IN  /\ (TopMacro(PanelNames) /\ ~obsidian) =>
                   Tail(out[1].kids) = Canonical(rich)
            /\ (TopMacro(PanelNames) /\ obsidian) =>
                   out = Reparse(callout_replacement(
                             panel_types(_get_macro_name(top)[1]),
                             _get_param(top, "title"), Canonical(rich)))
            /\ TopMacro({"expand"}) => Tail(out[1].kids) = Canonical(rich)
            /\ TopMacro({"highlight"}) => out[1].kids = Canonical(rich)
            /\ (TopTaskList /\ Len(top.kids) = 1) =>
                   \E marker \in TaskMarkers :
                       out[1].kids[1].kids =
                           Reparse(<<Txt(marker)>>
                               \o Canonical(InnerHtml(top, "ac:task-body")))


\* the rules that match structured macros by name, with the phase each runs in
MacroRules ==
    [code |-> "code_blocks", panel |-> "info_panels",
     expand |-> "expand_macros", status |-> "status_macros",
     toc |-> "toc_macros", noformat |-> "noformat", hl_macro |-> "highlights"]

MacroNames ==
    {"code", "code-block", "noformat", "expand", "status", "toc", "highlight"}
        \cup PanelNames

HasRun(phase) == \E i \in 1..Len(phases) : phases[i] = phase

\* C3: the macro names of the passes are pairwise disjoint, and once a pass
\* has run no structured macro it recognizes is left in the tree un-rewritten
\* (every recognized macro is rewritten, by the one rule that matches it).
C3_RewrittenOnce ==
    /\ \A name \in MacroNames :
           Cardinality({r \in DOMAIN MacroRules :
                           Matches(r, MacroEl(name, <<>>))}) = 1
    /\ \A r \in DOMAIN MacroRules :
           HasRun(MacroRules[r]) =>
               \A i \in 1..Len(Nodes(soup)) : ~Matches(r, Nodes(soup)[i])

\* C4: _postprocess is idempotent: applied to its own result it changes
\* nothing.
C4_PostprocessIdempotent == ppc = "done" => pz = py

HasNewlineRun(s, n) ==
    \E i \in 1..(Len(s) - n + 1) : \A j \in i..(i + n - 1) : s[j] = "\n"

\* C5: the result of _postprocess holds no run of three or more newlines.
C5_NoTripleNewline == ppc \in {"twice", "done"} => ~HasNewlineRun(py, 3)

\* C6: for empty and whitespace-only markup, under every configuration,
\* convert returns the empty string and none of its phases runs.
C6_BlankInputEmpty ==
    html \in BlankDocs =>
        /\ phases = <<>>
        /\ soup = <<>>
        /\ md = <<>>
        /\ pc \in {"start", "done"}

C6_Witness ==
    /\ html = <<Txt(<<"\n", "\t", " ">>)>>
    /\ obsidian
    /\ pc = "done"
    /\ md = <<>>

\* a parameter of the macro itself: a direct ac:parameter child of that name
OwnParam(macro, name) ==
    LET own == SelectSeq(macro.kids,
                   LAMBDA k : k.tag = "ac:parameter"
                                  /\ Get(k, "ac:name", <<>>) = <<name>>)
    IN  IF own # <<>> THEN GetTextStrip(own[1]) ELSE <<>>

\* the characters a plain-text body stands for: those of a CDATA section as
\* written, those of escaped text with its entities decoded
SourceText(n) == IF n.tag = "#cdata" THEN n.text ELSE Decode(n.text)

\* C7: a code or code-block macro outside a table, its plain-text body not
\* blank, comes out as a fenced block: the fence, the macro's own language
\* parameter, and exactly the body text with its leading and trailing
\* newlines trimmed, CDATA-wrapped or not, with or without markup characters.
C7_FencedCodeExact ==
    (pc = "done" /\ TopMacro({"code", "code-block"})) =>
        LET bodies == SelectSeq(html[1].kids,
                          LAMBDA k : k.tag = "ac:plain-text-body")
            plain  == SourceText(bodies[1].kids[1])
        IN  (bodies # <<>> /\ Strip(plain) # <<>>) =>
                md = <<Fence>> \o OwnParam(html[1], "language") \o <<"\n">>
                         \o StripChars(plain, {"\n"}) \o <<"\n", Fence, "\n">>

\* the label of a panel: its type capitalized, panel standing for note
PanelLabel(name) ==
    CASE name = "info" -> "Info"
      [] name = "note" -> "Note"
      [] name = "warning" -> "Warning"
      [] name = "tip" -> "Tip"
      [] name = "panel" -> "Note"

\* C8: in the standard flavor the panel pass replaces a panel by a blockquote
\* whose first paragraph is the bold label, followed by ": <title>" exactly
\* when the panel has a non-empty title parameter, and whose other children
\* are the children of the body in their order.
C8_PanelBlockquote ==
    (pc = "expand_macros" /\ ~obsidian /\ TopMacro(PanelNames)) =>
        LET panel  == _preprocess_code_blocks(Parse(html), cfg)[1]
            title  == OwnParam(panel, "title")
            header == <<PanelLabel(_get_macro_name(panel)[1])>>
                          \o (IF title # <<>> THEN <<":", " ">> \o title
                              ELSE <<>>)
        IN  soup = <<El("blockquote", NoAttrs,
                        <<El("p", NoAttrs,
                             <<El("strong", NoAttrs, <<Txt(header)>>)>>)>>
                            \o Reparse(InnerHtml(panel,
                                                 "ac:rich-text-body")))>>

\* the parameter each rule reads from the macros it matches
ParamsRead ==
    [code |-> {"language"}, panel |-> {"title"}, expand |-> {"title"},
     status |-> {"title"}, hl_macro |-> {"color"}]

\* C9: the value a rule reads for a parameter of a macro is the text of the
\* macro's own parameter of that name, and the empty string when the macro
\* has none, whatever parameters the macros nested in its body carry.
C9_OwnParameter ==
    \A r \in DOMAIN ParamsRead :
        pc = MacroRules[r] =>
            \A i \in 1..Len(Nodes(soup)) :
                Matches(r, Nodes(soup)[i]) =>
                    \A name \in ParamsRead[r] :
                        _get_param(Nodes(soup)[i], name)
                            = OwnParam(Nodes(soup)[i], name)

\* the completion status of the task itself: its direct ac:task-status child
OwnStatus(task) ==
    LET own == SelectSeq(task.kids, LAMBDA k : k.tag = "ac:task-status")
    IN  IF own # <<>> THEN GetTextStrip(own[1]) ELSE <<>>

StartsWith(s, prefix) ==
    Len(s) >= Len(prefix) /\ SubSeq(s, 1, Len(prefix)) = prefix

\* C10: the task-list pass replaces a task list by a list with one item per
\* direct task child, in their order, the item's body prefixed with "[x] "
\* exactly when the task's own status is "complete" and with "[ ] "
\* otherwise, also for a task without a status element.
C10_TaskItems ==
    (pc = "user_mentions" /\ TopTaskList) =>
        LET tasks == SelectSeq(Parse(html)[1].kids,
                         LAMBDA k : k.tag = "ac:task")
            items == soup[1].kids
        IN  /\ soup[1].tag = "ul"
            /\ Len(items) = Len(tasks)
            /\ \A i \in 1..Len(tasks) :
                   LET marker == IF OwnStatus(tasks[i]) = <<"complete">>
                                 THEN <<"[x]", " ">>
                                 ELSE <<"[", " ", "]", " ">>
                       body   == InnerHtml(tasks[i], "ac:task-body")
                   IN  /\ items[i].tag = "li"
                       /\ StartsWith(GetText(items[i]), marker)
                       /\ (\A j \in 1..Len(body) : body[j].tag = "#text") =>
                              GetText(items[i])
                                  = marker \o GetText(TaskBody(body))

\* the references an image element holds itself, and whether each carries
\* its attribute
OwnRefs(img, tag) == SelectSeq(img.kids, LAMBDA k : k.tag = tag)

WellFormedImage(img) ==
    /\ \A i \in 1..Len(img.kids) :
          /\ img.kids[i].tag = "ri:attachment"
                => "ri:filename" \in DOMAIN img.kids[i].attrs
          /\ img.kids[i].tag = "ri:url"
                => "ri:value" \in DOMAIN img.kids[i].attrs

\* the image the claim describes for an image reference
ClaimedImage(img, c) ==
    LET atts == OwnRefs(img, "ri:attachment")
        urls == OwnRefs(img, "ri:url")
        alt  == Get(img, "ac:alt", <<>>)
        plain(src, a) == El("img", ("src" :> src) @@ ("alt" :> a), <<>>)
    IN  IF atts # <<>> THEN
            LET f == atts[1].attrs["ri:filename"] IN
            IF c.obsidian
            THEN El("div", "data-raw-markdown" :> <<"true">>,
                    <<Txt(<<"![[">> \o f \o <<"]]">>)>>)
            ELSE plain(IF c.download THEN <<c.image_dir, "/">> \o f ELSE f,
                       IF alt # <<>> THEN alt ELSE f)
        ELSE IF urls # <<>> THEN
            plain(urls[1].attrs["ri:value"],
                  IF alt # <<>> THEN alt ELSE <<"image">>)
        ELSE plain(<<>>, <<"image">>)

\* C11: after the image pass an image reference has become what the claim
\* says: for an attachment (which wins over a URL) the embed under the
\* alternate flavor, else an image whose source is the directory and the
\* filename when images are downloaded and the bare filename otherwise, with
\* the explicit alt or the filename; for a URL alone the URL as the source
\* and the explicit alt or "image"; for neither an empty source and the alt
\* text "image".
C11_ImageResolution ==
    (/\ pc = "noformat"
     /\ Len(html) = 1
     /\ html[1] \in ImageEls
     /\ WellFormedImage(html[1]))
        => soup = <<ClaimedImage(html[1], cfg)>>

\* the text of the link body a link holds itself, <<>> when it has no body
\* or an empty one
OwnLinkBodyText(link) ==
    LET bodies == SelectSeq(link.kids,
                      LAMBDA k : k.tag \in {"ac:link-body",
                                            "ac:plain-text-link-body"})
    IN  IF bodies = <<>> THEN <<>> ELSE GetTextStrip(bodies[1])

\* the account identifier a user reference carries, <<>> when it has none or
\* an empty one
AccountIdentifier(user) ==
    LET present(a) == a \in DOMAIN user.attrs /\ user.attrs[a] # <<>>
    IN  IF present("ri:userkey") THEN user.attrs["ri:userkey"]
        ELSE IF present("ri:account-id") THEN user.attrs["ri:account-id"]
        ELSE <<>>

\* the display name the claim describes for a link with a user reference
ClaimedDisplayName(link) ==
    LET user == OwnRefs(link, "ri:user")[1] IN
    IF OwnLinkBodyText(link) # <<>> THEN OwnLinkBodyText(link)
    ELSE IF AccountIdentifier(user) # <<>> THEN AccountIdentifier(user)
    ELSE <<"user">>

\* C12: after the user-mention pass a link with a user reference has become
\* the single text node "@" followed by the display name: the explicit body
\* if there is one, else the user's account identifier, else "user", whether
\* the body and the identifier attribute are present, absent or empty.
C12_MentionDisplayName ==
    (pc = "page_links" /\ Len(html) = 1 /\ html[1] \in Mentions)
        => soup = <<Txt(<<"@">> \o ClaimedDisplayName(html[1]))>>

\* the title a page or content-entity reference carries, <<>> when it has
\* none or an empty one
ReferencedTitle(ref) ==
    IF "ri:content-title" \in DOMAIN ref.attrs
    THEN ref.attrs["ri:content-title"] ELSE <<>>

\* the anchor text the claim describes for a page or content-entity link
ClaimedLinkText(link) ==
    LET refs == SelectSeq(link.kids,
                    LAMBDA k : k.tag \in {"ri:page", "ri:content-entity"})
    IN  IF OwnLinkBodyText(link) # <<>> THEN OwnLinkBodyText(link)
        ELSE IF ReferencedTitle(refs[1]) # <<>> THEN ReferencedTitle(refs[1])
        ELSE <<"Link">>

\* C13: after the page-link pass a link with a page reference or a
\* content-entity reference has become an anchor with an empty href whose
\* text is the link body's text if the link has a body, else the referenced
\* title, else "Link", in the same way for both kinds of reference.
C13_PageLinkText ==
    (pc = "status_macros" /\ Len(html) = 1 /\ html[1] \in PageLinkEls)
        => soup = <<El("a", "href" :> <<>>,
                       <<Txt(ClaimedLinkText(html[1]))>>)>>

\* the Markdown the renderer makes of one child of a details element
RenderedChild(k) == Strip(RenderNode(k, {"details"}, obsidian))

\* C14: when the renderer has emitted a details element, the details and
\* summary tags are literal markup and every child of the element appears in
\* the output in its Markdown-rendered form, not as its serialised markup.
C14_DetailsChildrenRendered ==
    (pc = "postprocess" /\ Len(soup) = 1 /\ soup[1].tag = "details")
        => /\ SubSeq(md, 1, 6) = <<"<", "details", ">", "<", "summary", ">">>
           /\ \A i \in 2..Len(soup[1].kids) :
                 LET k == soup[1].kids[i] IN
                 /\ Contains(md, RenderedChild(k))
                 /\ (k.tag # "#text" /\ Serialize(k) # RenderedChild(k))
                       => ~Contains(md, Serialize(k))

\* the highlight source of a document of HighlightDocs
SourceOf(doc) ==
    IF doc[1] \in HighlightSources THEN doc[1] ELSE
    IF doc[1].tag = "p" THEN doc[1].kids[1]
    ELSE doc[1].kids[1].kids[1]

\* the colour of a highlight source: the class through the table, the CSS
\* value, the macro's parameter, the mark's own colour; yellow by default
SourceColor(h) ==
    IF h.tag = "span" /\ "class" \in DOMAIN h.attrs THEN
        LET known == SelectSeq(h.attrs["class"],
                         LAMBDA c : c \in DOMAIN HIGHLIGHT_CLASS_COLORS)
        IN  IF known = <<>> THEN <<"yellow">>
            ELSE <<HIGHLIGHT_CLASS_COLORS[known[1]]>>
    ELSE IF h.tag = "span" THEN <<"#ff0">>
    ELSE IF h.tag = "mark" THEN Get(h, "data-highlight-color", <<"yellow">>)
    ELSE LET own == OwnParam(h, "color")
         IN  IF own = <<>> THEN <<"yellow">> ELSE own

\* the output the claim describes for highlighted text of a colour
ClaimedMark(color, text, obs) ==
    IF color = <<"yellow">> THEN
        IF obs THEN <<"==">> \o text \o <<"==">>
        ELSE <<"<mark>">> \o text \o <<"</mark>">>
    ELSE <<"<mark", " ", "style=\"background:", " ">> \o color
             \o <<"\">">> \o text \o <<"</mark>">>

\* C15: highlighted text that went through convert is emitted, under the
\* alternate flavor, as ==text== for the default yellow and as a mark with a
\* background style otherwise; under the standard flavor as a mark element
\* that carries the style only when the colour is not the default; also
\* inside a panel body.
C15_HighlightOutput ==
    (pc = "postprocess" /\ html \in HighlightDocs)
        => Contains(md, ClaimedMark(SourceColor(SourceOf(html)),
                                    <<"hi">>, obsidian))

\* the code text a table cell's content holds: the element's text, or the
\* plain-text body of a code macro
CellCodeText(c) ==
    IF c.tag = "ac:structured-macro"
    THEN SourceText(c.kids[1].kids[1])
    ELSE GetText(c)

\* the cell text the table rules are to emit for a piece of code: an inline
\* span with its pipes escaped; for a pre block a span when the trimmed text
\* is one line, an HTML code element with br line breaks otherwise
ClaimedCell(c) ==
    LET t       == CellCodeText(c)
        trimmed == EscapePipes(StripChars(t, {"\n"}))
    IN  IF c.tag = "code"
        THEN <<Backtick>> \o EscapePipes(t) \o <<Backtick>>
        ELSE IF \A i \in 1..Len(trimmed) : trimmed[i] # "\n"
        THEN <<Backtick>> \o trimmed \o <<Backtick>>
        ELSE <<"<code>">> \o NewlinesToBr(trimmed) \o <<"</code>">>

\* C16: code inside a table cell is emitted in the claimed form (pipes
\* escaped in a backtick span, or a code element with br breaks for several
\* lines), and the emitted table holds no fence, no pipe and no newline
\* beyond those of its own row frame, so the code never breaks the row.
C16_CodeKeepsTableRow ==
    (pc = "done" /\ html \in TableDocs) =>
        LET cell   == html[1].kids[1].kids[1]
            header == cell.tag = "th"
        IN  /\ Contains(md, <<"|", " ">> \o ClaimedCell(cell.kids[1])
                                \o <<" ", "|", "\n">>)
            /\ Count(md, Fence) = 0
            /\ Count(md, "\n") = (IF header THEN 2 ELSE 3)
            /\ Count(md, "|") = (IF header THEN 4 ELSE 6)

\* the optional parts of a construct, as written in the source document
OwnKids(el, tag) == SelectSeq(el.kids, LAMBDA k : k.tag = tag)

OwnBody(el, tag) ==
    IF OwnKids(el, tag) = <<>> THEN <<>> ELSE OwnKids(el, tag)[1].kids

OwnAttr(el, tag, name, default) ==
    IF OwnKids(el, tag) = <<>> THEN default
    ELSE Get(OwnKids(el, tag)[1], name, default)

OrDefault(v, default) == IF v = <<>> THEN default ELSE v

\* a link or image whose optional parts are each absent or present with text
PartsAbsentOrFilled(el) ==
    /\ \A i \in 1..Len(el.kids) :
           /\ \A a \in DOMAIN el.kids[i].attrs : el.kids[i].attrs[a] # <<>>
           /\ el.kids[i].tag \in {"ac:link-body", "ac:plain-text-link-body"}
                  => el.kids[i].kids # <<>>
    /\ el.tag = "ac:link" /\ OwnKids(el, "ri:content-entity") # <<>>
           => Len(el.kids) = 1
    /\ el.tag = "ac:image" /\ Len(el.kids) = 0 => "ac:alt" \notin DOMAIN el.attrs

PartialDocs ==
    {<<n>> : n \in PartialEls}
        \cup {<<n>> \in {<<e>> : e \in ImageEls \cup Mentions \cup PageLinkEls} :
                 PartsAbsentOrFilled(n)}

\* what stands for a construct once its rule has run, every absent part
\* replaced by its documented default
DefaultedMacro(c, name) ==
    LET plain == GetText(El("x", NoAttrs, OwnBody(c, "ac:plain-text-body")))
        rich  == OwnBody(c, "ac:rich-text-body")
        title == OwnParam(c, "title")
    IN  CASE name \in {"code", "code-block"} ->
               El("pre", "data-lang" :> OwnParam(c, "language"),
                  <<El("code", NoAttrs, <<Txt(plain)>>)>>)
          [] name = "noformat" ->
               El("pre", NoAttrs, <<El("code", NoAttrs, <<Txt(plain)>>)>>)
          [] name = "expand" ->
               El("details", NoAttrs,
                  <<El("summary", NoAttrs,
                       <<Txt(OrDefault(title,
                                 <<"Click", " ", "to", " ", "expand">>))>>)>>
                      \o rich)
          [] name = "status" ->
               El("strong", NoAttrs,
                  <<Txt(<<"[">> \o OrDefault(title, <<"STATUS">>) \o <<"]">>)>>)
          [] name = "highlight" ->
               El("mark",
                  "data-highlight-color"
                      :> OrDefault(OwnParam(c, "color"), <<"yellow">>),
                  rich)
          [] OTHER ->
               El("blockquote", NoAttrs,
                  <<El("p", NoAttrs,
                       <<El("strong", NoAttrs,
                            <<Txt(<<PanelLabel(name)>>
                                      \o (IF title = <<>> THEN <<>>
                                          ELSE <<":", " ">> \o title))>>)>>)>>
                      \o rich)

DefaultedLink(c) ==
    LET body == OwnBody(c, "ac:link-body")
                    \o OwnBody(c, "ac:plain-text-link-body")
        text == GetText(El("x", NoAttrs, body))
    IN  IF OwnKids(c, "ri:user") # <<>>
        THEN Txt(<<"@">> \o
                 OrDefault(text,
                     OrDefault(OwnAttr(c, "ri:user", "ri:userkey", <<>>),
                         OwnAttr(c, "ri:user", "ri:account-id", <<"user">>))))
        ELSE El("a", "href" :> <<>>,
                <<Txt(OrDefault(text,
                          OrDefault(
                              OwnAttr(c, "ri:page", "ri:content-title", <<>>),
                              OwnAttr(c, "ri:content-entity",
                                      "ri:content-title", <<"Link">>))))>>)

DefaultedImage(c, conf) ==
    LET filename == OwnAttr(c, "ri:attachment", "ri:filename", <<"image">>)
        alt      == Get(c, "ac:alt", <<>>)
    IN  IF OwnKids(c, "ri:attachment") # <<>>
        THEN IF conf.obsidian
             THEN El("div", "data-raw-markdown" :> <<"true">>,
                     <<Txt(<<"![[">> \o filename \o <<"]]">>)>>)
             ELSE El("img",
                     ("src" :> (IF conf.download
                                THEN <<conf.image_dir, "/">> \o filename
                                ELSE filename))
                         @@ ("alt" :> OrDefault(alt, filename)),
                     <<>>)
        ELSE El("img",
                ("src" :> OwnAttr(c, "ri:url", "ri:value", <<>>))
                    @@ ("alt" :> OrDefault(alt, <<"image">>)),
                <<>>)

DefaultedTask(c) ==
    LET status == GetText(El("x", NoAttrs, OwnBody(c, "ac:task-status")))
    IN  El("li", NoAttrs,
           <<Txt((IF status = <<"complete">> THEN <<"[x]">>
                  ELSE <<"[", " ", "]">>)
                     \o <<" ">>
                     \o GetText(El("x", NoAttrs, OwnBody(c, "ac:task-body"))))>>)

Defaulted(c, conf) ==
    CASE c.tag = Macro -> DefaultedMacro(c, Get(c, "ac:name", <<>>)[1])
      [] c.tag = "ac:link" -> DefaultedLink(c)
      [] c.tag = "ac:image" -> DefaultedImage(c, conf)
      [] c.tag = "ac:emoticon" ->
           Txt(<<IF Get(c, "ac:name", <<>>) = <<"smile">>
                 THEN "U+1F642"
                 ELSE ":" \o OrDefault(Get(c, "ac:name", <<>>), <<"">>)[1]
                          \o ":">>)
      [] OTHER -> El("ul", NoAttrs, <<DefaultedTask(c.kids[1])>>)

Written(s) ==
    LET schemed == Len(s) >= 3 /\ s[2] = ":" /\ s[3] = "//"
        rest    == IF schemed THEN SubSeq(s, 4, Len(s)) ELSE s
        stop    == FirstOf(rest, {"/", "?"})
        tail    == SubSeq(rest, stop, Len(rest))
    IN  [scheme |-> IF schemed THEN s[1] ELSE "https",
         host   |-> SubSeq(rest, 1, stop - 1),
         path   |-> SubSeq(tail, 1, FirstOf(tail, {"?"}) - 1)]

\* the classification of a trimmed input by the first shape that its path
\* contains, in the order standard, display, short, fallback
Classified(s) ==
    LET w    == Written(s)
        base == <<w.scheme, ":", "//">> \o w.host \o <<"/", "wiki">>
        at(pattern) == Search(w.path, pattern)
    IN  IF AllDigits(s) THEN UrlResult(s[1], None, None, None)
        ELSE IF at(StandardPattern) # 0
        THEN UrlResult(DigitPrefix(w.path[at(StandardPattern) + 9]), None,
                       base, w.path[at(StandardPattern) + 5])
        ELSE IF at(DisplayPattern) # 0
        THEN UrlResult(None, None, base, w.path[at(DisplayPattern) + 5])
        ELSE IF at(ShortPattern) # 0
        THEN UrlResult(None, WordPrefix(w.path[at(ShortPattern) + 5]),
                       base, None)
        ELSE IF at(FallbackPattern) # 0
        THEN UrlResult(DigitPrefix(w.path[at(FallbackPattern) + 3]), None,
                       base, None)
        ELSE ValueError

\* C18: parse_confluence_url classifies the trimmed input by the first shape
\* that matches, in the order all digits, /wiki/spaces/K/pages/N,
\* /wiki/display/K/, /wiki/x/code, /pages/N, and raises ValueError otherwise;
\* page_id and short_link are never both set, and base_url is
\* scheme://host/wiki for every URL input.
C18_UrlClassification ==
    upc = "done" =>
        /\ url_result = Classified(Strip(url_or_id))
        /\ url_result # ValueError =>
               url_result.page_id = None \/ url_result.short_link = None

\* the requests to the page endpoint, in order
PageRequests == SelectSeq(requests, LAMBDA r : r.endpoint = "page")

\* a 4xx status other than 429
NonTransient(o) ==
    o.error = "" /\ 400 <= o.status_code /\ o.status_code < 500
        /\ o.status_code # 429

\* a 429, a 5xx status or a transport error
Transient(o) ==
    \/ o.error = "TransportError"
    \/ o.error = "" /\ (o.status_code = 429
                            \/ (500 <= o.status_code /\ o.status_code < 600))

\* the error fetch_page reports for a failed page request
ErrorOf(o) ==
    IF o.error # "" THEN [type |-> o.error, status_code |-> 0]
    ELSE [type |-> "ConfluenceError", status_code |-> o.status_code]

RaisedError == [type |-> raised.type, status_code |-> raised.status_code]

\* C19: fetch_page makes at most three attempts; a page response with a 4xx
\* status other than 429 ends the call at once with a ConfluenceError of
\* that status (404: "Page not found") and no further request, so after
\* exactly one request when it answers the first; a 429, a 5xx status or a
\* transport error is followed by another attempt, and on the third attempt
\* by that last error being raised.
C19_BoundedRetry ==
    /\ Len(PageRequests) <= 3
    /\ \A i \in 1..Len(requests) :
           LET r == requests[i]
           IN  r.endpoint = "page" =>
                   /\ NonTransient(r.outcome) =>
                          /\ i = Len(requests)
                          /\ fpc = "raised"
                          /\ RaisedError = ErrorOf(r.outcome)
                          /\ r.outcome.status_code = 404 =>
                                 raised.message = "Page not found"
                   /\ (Transient(r.outcome) /\ i = Len(requests)) =>
                          IF Len(PageRequests) < 3
                          THEN fpc = "page" /\ raised = NoError
                          ELSE fpc = "raised"
                                   /\ RaisedError = ErrorOf(r.outcome)

\* three page requests have failed with 500, a transport error and 429, and
\* the call has raised the last of them
C19_Witness ==
    /\ fpc = "raised"
    /\ Len(requests) = 3
    /\ requests[1] = Request("page", Response(500))
    /\ requests[2].outcome.error = "TransportError"
    /\ requests[3] = Request("page", Response(429))
    /\ raised = ConfluenceError("Failed to fetch page", 429)

\* the process has exited through the handler of this error kind
ErrorExit(kind) ==
    cpc = "exited" /\ stderr # <<>> /\ stderr[Len(stderr)] = Message(kind)

\* C20: each of the four collaborator error kinds (configuration, URL
\* parse, short-link resolution, fetch) ends the process with an exit
\* status of its own, which none of the other three kinds maps to, and
\* before any conversion, attachment download or output write.
C20_DistinctExitConditions ==
    \A kind \in ErrorKinds :
        ErrorExit(kind) =>
            /\ \A other \in ErrorKinds \ {kind} :
                   exit_status # ExitStatus(other)
            /\ effects = <<>>

\* the requests to the attachment-list endpoint, in order
AttachmentRequests == SelectSeq(requests, LAMBDA r : r.endpoint = "attachments")

\* C23: one call of fetch_page issues at most 3 requests to the page
\* endpoint and at most 3 requests to the attachment-list endpoint in
\* total, whatever the responses and transport errors: the retry of the
\* attachment listing does not multiply with the retry of fetch_page.
C23_BoundedRequests ==
    /\ Len(PageRequests) <= 3
    /\ Len(AttachmentRequests) <= 3

\* the phase a step of convert() belongs to: 1 normalize, 2 render,
\* 3 post-process (parsing comes before all of them)
PhaseOf(step) ==
    CASE step = "parse" -> 0
      [] step = "render" -> 2
      [] step = "postprocess" -> 3
      [] OTHER -> 1

\* C21: within one convert() call the steps run in the order normalize,
\* render, post-process, and data flows one way under both flavors: the
\* renderer is invoked by the render step only, never by a normalizer rule
\* (so no rule reads rendered Markdown), and no normalizer rule runs once
\* the renderer has run.
C21_OneWayPhases ==
    /\ \A i \in 1..Len(phases) : \A j \in 1..Len(phases) :
           i < j => PhaseOf(phases[i]) <= PhaseOf(phases[j])
    /\ \A i \in 1..Len(md_calls) : md_calls[i] = "render"

\* a source of highlighted text: a span with a highlight-<color> class, a
\* span with an inline background-color style, a highlight macro
IsHighlightSpan(n) ==
    /\ n.tag = "span"
    /\ \/ \E i \in 1..Len(Get(n, "class", <<>>)) :
              StartsWithHighlight(Get(n, "class", <<>>)[i])
       \/ \E i \in 1..Len(Get(n, "style", <<>>)) :
              Get(n, "style", <<>>)[i] = "background-color"

IsHighlightMacro(n) ==
    n.tag = Macro /\ Get(n, "ac:name", <<>>) = <<"highlight">>

IsHighlightSource(n) ==
    IsHighlightSpan(n) \/ IsHighlightMacro(n) \/ n.tag = "mark"

\* the colours of the highlight sources of a document, in document order
SourceColors(doc) ==
    LET sources == SelectSeq(Descendants(doc), IsHighlightSource)
    IN  [i \in 1..Len(sources) |-> SourceColor(sources[i])]

\* the colours of the mark elements of a tree, in document order; a mark
\* without the attribute counts as the empty colour
MarkColors(tree) ==
    LET marks == SelectSeq(Descendants(tree), LAMBDA n : n.tag = "mark")
    IN  [i \in 1..Len(marks) |-> Get(marks[i], "data-highlight-color", <<>>)]

\* C22: after the highlight step, the last of the normalizer, every source
\* of highlighted text (span with a highlight class, span with a
\* background-color style, highlight macro, pre-existing mark) is a mark
\* with its colour (class through the table, CSS value, macro parameter,
\* yellow by default), non-empty, and no highlight span or highlight macro
\* remains, also when the sources are nested in one another.
C22_HighlightsBecomeMarks ==
    (pc = "render" /\ html \in HighlightDocs \cup NestedHighlightDocs) =>
        /\ MarkColors(soup) = SourceColors(html)
        /\ \A i \in 1..Len(MarkColors(soup)) : MarkColors(soup)[i] # <<>>
        /\ \A i \in 1..Len(Descendants(soup)) :
               /\ ~IsHighlightSpan(Descendants(soup)[i])
               /\ ~IsHighlightMacro(Descendants(soup)[i])

====
